---- MODULE Spec2Model ----
(***************************************************************************)
(* Job lifecycle of the MCP image generator: the generate_image tool of    *)
(* callImageTool (src/src/tools-http-wrapper.ts) creates job rows in the   *)
(* D1 table generation_jobs and sends one work unit per job to the queue;  *)
(* the queue consumer (same file, `queue`) processes delivered batches,    *)
(* calling generateImage and uploadImage and writing the job row and the   *)
(* generations archive.                                                    *)
(*                                                                         *)
(* One action is one atomic segment of the JavaScript: the awaited         *)
(* database / queue / AI / R2 operation taking effect, followed by the     *)
(* synchronous code that runs when the await resumes, up to the point      *)
(* where the next awaited operation has been issued.  Values bound when a  *)
(* statement is issued (Date.now(), crypto.randomUUID()) are therefore     *)
(* chosen in the action that issues it and used in the action in which it  *)
(* takes effect.                                                           *)
(***************************************************************************)
EXTENDS Integers, Sequences, FiniteSets, TLC

(* ---------------------------------------------------------------- bounds *)
\* Number of identifiers crypto.randomUUID() hands to generate_image.
MaxJobs == 2
\* Date.now() ranges over 0..MaxTime.
MaxTime == 1
\* Times the queue re-queues a retried message before dead-lettering it.
MaxRetries == 1
\* Number of duplicate deliveries the at-least-once queue makes.
MaxDup == 1
\* Largest batch handed to one consumer invocation.
MaxBatch == 2
\* Consumer invocations the queue runs at once (max_concurrency).
MaxConcurrency == 1
\* The longest time, in ms, a SELECT of wait_for_completion takes to settle.
MaxLatency == 6000
\* Jobs the consumer processes beside a generate_image_and_wait call.
MaxServed == 1

(* ------------------------------------------------------ program constants *)
MinPromptLen == 3
MaxPromptLen == 1000
MinCount == 1
MaxCount == 20
MaxFilenamePrompt == 50
EstimatedTimeSeconds == 30

Models == {"flux-schnell", "sdxl-lightning", "sdxl-base"}
DefaultModel == "flux-schnell"
DefaultCount == 1

\* wait_for_completion: timeouts in ms, and the sizes WaitForCompletionSchema accepts.
BASE_TIMEOUT == 60000
PER_JOB_TIMEOUT == 3000
POLL_INTERVAL == 3000
MinJobIds == 1
MaxJobIds == 20

\* list_jobs / list_generations: what ListJobsSchema and ListGenerationsSchema accept.
MinLimit == 1
MaxLimit == 50
DefaultLimit == 10
MinOffset == 0
DefaultOffset == 0
StatusFilters == {"all", "pending", "processing", "completed", "failed"}
DefaultStatus == "all"

(* ------------------------------------------------------- optional values *)
\* SQL NULL / an absent JSON field is the empty tuple, a present value v is <<v>>.
None == <<>>
Some(v) == <<v>>

\* An argument the caller left out of the tool call is None.
Omitted == None

(* ------------------------------------------------ prompts and file names *)
\* A prompt is a sequence of one-character strings.
UpperCase == <<"A","B","C","D","E","F","G","H","I","J","K","L","M",
               "N","O","P","Q","R","S","T","U","V","W","X","Y","Z">>
LowerCase == <<"a","b","c","d","e","f","g","h","i","j","k","l","m",
               "n","o","p","q","r","s","t","u","v","w","x","y","z">>
Digits == <<"0","1","2","3","4","5","6","7","8","9">>

Range(f) == {f[i] : i \in DOMAIN f}

\* String.prototype.toLowerCase on one character.
ToLowerChar(c) ==
  IF c \in Range(UpperCase)
    THEN LowerCase[CHOOSE i \in DOMAIN UpperCase : UpperCase[i] = c]
    ELSE c

ToLowerCase(s) == [i \in DOMAIN s |-> ToLowerChar(s[i])]

IsAlnum(c) == c \in Range(LowerCase) \cup Range(Digits)

\* .replace(/[^a-z0-9]+/g, '-'): every maximal run of other characters becomes one hyphen.
RECURSIVE CollapseRuns(_, _)
CollapseRuns(s, inRun) ==
  IF s = <<>> THEN <<>>
  ELSE IF IsAlnum(Head(s)) THEN <<Head(s)>> \o CollapseRuns(Tail(s), FALSE)
  ELSE IF inRun THEN CollapseRuns(Tail(s), TRUE)
  ELSE <<"-">> \o CollapseRuns(Tail(s), TRUE)

\* .replace(/^-+|-+$/g, ''): leading and trailing hyphens removed.
RECURSIVE StripLeading(_)
StripLeading(s) ==
  IF s # <<>> /\ Head(s) = "-" THEN StripLeading(Tail(s)) ELSE s

RECURSIVE StripTrailing(_)
StripTrailing(s) ==
  IF s # <<>> /\ s[Len(s)] = "-" THEN StripTrailing(SubSeq(s, 1, Len(s) - 1)) ELSE s

\* .substring(0, n)
Substring0(s, n) == SubSeq(s, 1, IF Len(s) < n THEN Len(s) ELSE n)

SanitizedPrompt(prompt) ==
  Substring0(StripTrailing(StripLeading(CollapseRuns(ToLowerCase(prompt), FALSE))),
             MaxFilenamePrompt)

\* `${timestamp}-${sanitizedPrompt}.png`
Filename(timestamp, prompt) == <<timestamp, SanitizedPrompt(prompt)>>

\* `https://pub-....r2.dev/${filename}`
DownloadUrl(filename) == <<"r2.dev", filename>>

(* ------------------------------------------------------------ test inputs *)
PromptRed == <<"R", "e", "d">>
PromptAB == <<"a", "!", "B">>
PromptShort == <<"h", "i">>

\* A prompt one character over the limit.
PromptLong == [i \in 1..(MaxPromptLen + 1) |-> "x"]

\* Argument objects passed to generate_image.
TestArgs ==
  { [prompt |-> PromptRed,   model |-> Omitted,          count |-> Omitted],
    [prompt |-> PromptAB,    model |-> Some("sdxl-lightning"), count |-> Some(2)],
    [prompt |-> PromptRed,   model |-> Some("flux-schnell"),   count |-> Some(1)],
    [prompt |-> PromptShort, model |-> Some("flux-schnell"),   count |-> Some(1)],
    [prompt |-> PromptRed,   model |-> Some("dall-e"),         count |-> Some(1)],
    [prompt |-> PromptRed,   model |-> Some("flux-schnell"),   count |-> Some(0)],
    [prompt |-> PromptRed,   model |-> Some("flux-schnell"),   count |-> Some(MaxCount + 1)],
    [prompt |-> PromptLong,  model |-> Omitted,          count |-> Omitted] }

\* An identifier no job row has.
MissingId == MaxJobs + 1

\* Argument objects passed to wait_for_completion.
WaitArgs ==
  { [job_id |-> Some(1),         job_ids |-> Omitted],
    [job_id |-> Omitted,         job_ids |-> Some(<<1, 2>>)],
    [job_id |-> Some(MissingId), job_ids |-> Omitted],
    [job_id |-> Omitted,         job_ids |-> Some(<<2, MissingId>>)],
    [job_id |-> Some(2),         job_ids |-> Omitted],
    [job_id |-> Omitted,         job_ids |-> Some(<<2>>)],
    [job_id |-> Omitted,         job_ids |-> Some(<<>>)],
    [job_id |-> Omitted,         job_ids |-> Omitted] }

\* Argument objects passed to wait_for_completion, some naming a job twice.
PollArgs ==
  { [job_id |-> Some(1),         job_ids |-> Omitted],
    [job_id |-> Some(2),         job_ids |-> Omitted],
    [job_id |-> Omitted,         job_ids |-> Some(<<1, 2>>)],
    [job_id |-> Omitted,         job_ids |-> Some(<<2, MissingId>>)],
    [job_id |-> Omitted,         job_ids |-> Some(<<2, 2>>)],
    [job_id |-> Omitted,         job_ids |-> Some(<<1, 2, 1>>)] }

\* The argument objects of TestArgs that generate_image accepts.
PartialArgs == {args \in TestArgs : Len(args.prompt) = 3 /\ args.model # Some("dall-e")
                                    /\ args.count \in {Omitted, Some(1), Some(2)}}

\* The identifier that is the empty string.
EmptyId == 0

\* Argument objects passed to get_job_status.
GetArgs ==
  { [job_id |-> Some(1)],
    [job_id |-> Some(2)],
    [job_id |-> Some(MissingId)],
    [job_id |-> Some(EmptyId)],
    [job_id |-> Omitted] }

\* Argument objects passed to generate_image_and_wait.
ComboArgs ==
  { [prompt |-> PromptRed,   model |-> Omitted,                count |-> Omitted],
    [prompt |-> PromptAB,    model |-> Some("sdxl-lightning"), count |-> Some(2)],
    [prompt |-> PromptShort, model |-> Some("flux-schnell"),   count |-> Some(1)] }

\* Tool names callImageTool has no case for.
UnknownTools == {"delete_job", ""}

\* Times, in ms, a SELECT of wait_for_completion takes to settle.
QueryLatencies == {0, MaxLatency}

\* Argument objects passed to list_jobs and list_generations (which ignores status).
ListArgs ==
  { [status |-> Omitted,           limit |-> Omitted,           offset |-> Omitted],
    [status |-> Some("completed"), limit |-> Some(1),           offset |-> Omitted],
    [status |-> Some("pending"),   limit |-> Some(1),           offset |-> Some(1)],
    [status |-> Some("done"),      limit |-> Omitted,           offset |-> Omitted],
    [status |-> Omitted,           limit |-> Some(0),           offset |-> Omitted],
    [status |-> Omitted,           limit |-> Some(MaxLimit + 1), offset |-> Omitted],
    [status |-> Omitted,           limit |-> Omitted,           offset |-> Some(-1)] }

ListTools == {"list_jobs", "list_generations"}

\* Argument objects passed to list_generations beside duplicate deliveries.
ArchiveArgs == {args \in ListArgs : args.status = Omitted /\ args.offset = Omitted}

(* ----------------------------------------------------------------- state *)
VARIABLES
  jobs,         \* table generation_jobs: job id -> row
  generations,  \* table generations: set of records
  queue,        \* image-generation-queue: messages waiting for delivery
  dlq,          \* image-generation-dlq: bodies of dead-lettered messages
  dups,         \* duplicate deliveries made so far
  inv,          \* consumer invocations: slot -> local state of queue()
  call,         \* locals of the generate_image call in progress
  resp,         \* response returned by the step just taken, None if it returned none
  clock,        \* latest value Date.now() has returned
  nextId,       \* identifiers crypto.randomUUID() has handed to generate_image
  errlog,       \* job ids of "[Consumer] Failed to update job ... status" log lines
  wait,         \* the wait_for_completion call in progress, or the last one's outcome
  list          \* the list_jobs / list_generations call in progress

vars == <<jobs, generations, queue, dlq, dups, inv, call, resp, clock, nextId, errlog,
          wait, list>>

JobIds == 1..MaxJobs
Slots == DOMAIN inv
Times == 0..MaxTime

\* Date.now(): some time not before any earlier reading.
NowValues == clock..MaxTime

(* ------------------------------------------------------------ job rows *)
\* A faulty INSERT: updated_at is not the created_at of the row.
NewJobRowStaleUpdate(jobId, prompt, model, now) ==
  [id |-> jobId, status |-> "pending", prompt |-> prompt, model |-> model,
   image_url |-> None, error |-> None, created_at |-> now, updated_at |-> now + 1]

\* INSERT INTO generation_jobs (id, status, prompt, model, created_at, updated_at)
\* VALUES (jobId, 'pending', prompt, model, now, now); image_url and error default to NULL.
NewJobRow(jobId, prompt, model, now) ==
  [id |-> jobId, status |-> "pending", prompt |-> prompt, model |-> model,
   image_url |-> None, error |-> None, created_at |-> now, updated_at |-> now]

\* const message: ImageGenerationMessage = { jobId, prompt, model }
WorkUnit(jobId, prompt, model) ==
  [jobId |-> jobId, prompt |-> prompt, model |-> model]

\* A message of the queue: the body and the number of deliveries it has had.
QueueMessage(body, attempts) == [body |-> body, attempts |-> attempts]

(* -------------------------------------------------------- generate_image *)
\* GenerateImageSchema.parse(args): None when zod rejects the arguments,
\* otherwise the parameters with the defaults filled in.
ValidPrompt(p) == Len(p) >= MinPromptLen /\ Len(p) <= MaxPromptLen
ValidModel(m) == m = Omitted \/ m[1] \in Models
\* A faulty count check: 0 passes.
ValidCountFromZero(c) == c = Omitted \/ (c[1] \in Int /\ c[1] >= 0 /\ c[1] <= MaxCount)
ValidCount(c) == c = Omitted \/ (c[1] \in Int /\ c[1] >= MinCount /\ c[1] <= MaxCount)

ParseGenerateImage(args) ==
  IF ValidPrompt(args.prompt) /\ ValidModel(args.model) /\ ValidCount(args.count)
    THEN Some([prompt |-> args.prompt,
               model |-> IF args.model = Omitted THEN DefaultModel ELSE args.model[1],
               count |-> IF args.count = Omitted THEN DefaultCount ELSE args.count[1]])
    ELSE None

\* The JSON object callImageTool returns as content[0].text, with isError beside it.
\* Fields the response does not carry are None.
\* A faulty catch block: the response is not marked isError.
ErrorResponseUnflagged(message) ==
  [success |-> FALSE, isError |-> FALSE, error |-> Some(message),
   job_id |-> None, job_ids |-> None, count |-> None, status |-> None,
   prompt |-> None, model |-> None, estimated_time_seconds |-> None]

ErrorResponse(message) ==
  [success |-> FALSE, isError |-> TRUE, error |-> Some(message),
   job_id |-> None, job_ids |-> None, count |-> None, status |-> None,
   prompt |-> None, model |-> None, estimated_time_seconds |-> None]

SingleJobResponse(params, jobIds) ==
  [success |-> TRUE, isError |-> FALSE, error |-> None,
   job_id |-> Some(jobIds[1]), job_ids |-> None, count |-> None,
   status |-> Some("pending"), prompt |-> Some(params.prompt),
   model |-> Some(params.model),
   estimated_time_seconds |-> Some(EstimatedTimeSeconds)]

MultiJobResponse(params, jobIds) ==
  [success |-> TRUE, isError |-> FALSE, error |-> None,
   job_id |-> None, job_ids |-> Some(jobIds), count |-> Some(params.count),
   status |-> Some("pending"), prompt |-> Some(params.prompt),
   model |-> Some(params.model),
   estimated_time_seconds |-> Some(EstimatedTimeSeconds)]

\* A faulty response: the list form whatever the count.
GenerateResponseAlwaysList(params, jobIds) == MultiJobResponse(params, jobIds)

GenerateResponse(params, jobIds) ==
  IF params.count = 1 THEN SingleJobResponse(params, jobIds)
                      ELSE MultiJobResponse(params, jobIds)

NoParams == [prompt |-> <<>>, model |-> DefaultModel, count |-> 0]

\* No generate_image call is in progress.
IdleCall ==
  [pc |-> "idle", params |-> NoParams, now |-> 0, jobIds |-> <<>>, i |-> 0]

\* callImageTool returns `response` to its caller; the call's locals are gone.
Returns(response) ==
  /\ call' = IdleCall
  /\ resp' = Some(response)

\* Loop body up to the first await: a fresh identifier is pushed on jobIds and the
\* INSERT is issued.
IssueInsert(c) == [c EXCEPT !.pc = "insert", !.jobIds = Append(c.jobIds, nextId)]

\* A caller invokes generate_image(args).  Rejected arguments go to the catch block
\* (error response); otherwise now = Date.now() and the first loop iteration starts.
GenStart(args) ==
  /\ call.pc = "idle"
  /\ LET parsed == ParseGenerateImage(args) IN
       IF parsed = None
         THEN /\ Returns(ErrorResponse("ZodError"))
              /\ UNCHANGED <<clock, nextId>>
         ELSE /\ nextId + parsed[1].count - 1 <= MaxJobs
              /\ \E t \in NowValues :
                   /\ clock' = t
                   /\ call' = IssueInsert([IdleCall EXCEPT !.params = parsed[1], !.now = t])
              /\ resp' = None
              /\ nextId' = nextId + 1
  /\ UNCHANGED <<jobs, generations, queue, dlq, dups, inv, errlog, wait, list>>

\* The INSERT of the job row takes effect; IMAGE_QUEUE.send(message) is issued.
GenInsert ==
  /\ call.pc = "insert"
  /\ LET jobId == call.jobIds[Len(call.jobIds)] IN
       jobs' = jobs @@ (jobId :> NewJobRow(jobId, call.params.prompt, call.params.model, call.now))
  /\ call' = [call EXCEPT !.pc = "send"]
  /\ resp' = None
  /\ UNCHANGED <<generations, queue, dlq, dups, inv, clock, nextId, errlog, wait, list>>

\* A faulty catch: the INSERT's error is swallowed and the work unit is sent although
\* no row was written.
GenInsertThrowsIgnored ==
  /\ call.pc = "insert"
  /\ call' = [call EXCEPT !.pc = "send"]
  /\ resp' = None
  /\ UNCHANGED <<jobs, generations, queue, dlq, dups, inv, clock, nextId, errlog, wait, list>>

\* The INSERT throws (D1 error): the catch block returns an error response.
GenInsertThrows ==
  /\ call.pc = "insert"
  /\ Returns(ErrorResponse("D1_ERROR: INSERT generation_jobs"))
  /\ UNCHANGED <<jobs, generations, queue, dlq, dups, inv, clock, nextId, errlog, wait, list>>

\* The send takes effect; i++ and either the next iteration starts or the call returns.
GenSend ==
  /\ call.pc = "send"
  /\ LET jobId == call.jobIds[Len(call.jobIds)] IN
       queue' = queue \cup
                {QueueMessage(WorkUnit(jobId, call.params.prompt, call.params.model), 1)}
  /\ IF call.i + 1 < call.params.count
       THEN /\ call' = IssueInsert([call EXCEPT !.i = call.i + 1])
            /\ resp' = None
            /\ nextId' = nextId + 1
       ELSE /\ Returns(GenerateResponse(call.params, call.jobIds))
            /\ UNCHANGED nextId
  /\ UNCHANGED <<jobs, generations, dlq, dups, inv, clock, errlog, wait, list>>

\* A faulty loop: a send that throws is skipped and the loop goes on with the next
\* replica; only a throw on the last replica ends the call with an error response.
GenSendThrowsGoesOn ==
  /\ call.pc = "send"
  /\ IF call.i + 1 < call.params.count
       THEN /\ call' = IssueInsert([call EXCEPT !.i = call.i + 1])
            /\ resp' = None
            /\ nextId' = nextId + 1
       ELSE /\ Returns(ErrorResponse("Queue send failed"))
            /\ UNCHANGED nextId
  /\ UNCHANGED <<jobs, generations, queue, dlq, dups, inv, clock, errlog, wait, list>>

\* A faulty send: it throws after the message was enqueued.
GenSendThrowsAfterEnqueue ==
  /\ call.pc = "send"
  /\ LET jobId == call.jobIds[Len(call.jobIds)] IN
       queue' = queue \cup
                {QueueMessage(WorkUnit(jobId, call.params.prompt, call.params.model), 1)}
  /\ Returns(ErrorResponse("Queue send failed"))
  /\ UNCHANGED <<jobs, generations, dlq, dups, inv, clock, nextId, errlog, wait, list>>

\* The send throws: the catch block returns an error response; the row stays.
GenSendThrows ==
  /\ call.pc = "send"
  /\ Returns(ErrorResponse("Queue send failed"))
  /\ UNCHANGED <<jobs, generations, queue, dlq, dups, inv, clock, nextId, errlog, wait, list>>


(* -------------------------------------------------------- queue consumer *)
\* UPDATE generation_jobs SET status = 'processing', updated_at = ? WHERE id = ?
\* A faulty 'processing' update: the image_url is written ahead of the upload.
MarkProcessingWithUrl(row, t) ==
  [row EXCEPT !.status = "processing", !.updated_at = t,
              !.image_url = Some(DownloadUrl(Filename(t, row.prompt)))]

MarkProcessing(row, t) ==
  [row EXCEPT !.status = "processing", !.updated_at = t]

\* A faulty 'completed' UPDATE: updated_at is left as it was.
MarkCompletedKeepsTime(row, url, now) ==
  [row EXCEPT !.status = "completed", !.image_url = Some(url)]

\* UPDATE generation_jobs SET status = 'completed', image_url = ?, updated_at = ? WHERE id = ?
MarkCompleted(row, url, now) ==
  [row EXCEPT !.status = "completed", !.image_url = Some(url), !.updated_at = now]

\* A faulty 'failed' UPDATE: the error column is not written.
MarkFailedWithoutError(row, errorMessage, t) ==
  [row EXCEPT !.status = "failed", !.updated_at = t]

\* A faulty 'failed' UPDATE: the status column is not written.
MarkFailedKeepsStatus(row, errorMessage, t) ==
  [row EXCEPT !.error = Some(errorMessage), !.updated_at = t]

\* UPDATE generation_jobs SET status = 'failed', error = ?, updated_at = ? WHERE id = ?
MarkFailed(row, errorMessage, t) ==
  [row EXCEPT !.status = "failed", !.error = Some(errorMessage), !.updated_at = t]

\* A faulty UPDATE with no WHERE clause: the columns written are set on every row.
UpdateEveryRow(table, jobId, newRow) ==
  [j \in DOMAIN table |->
     [table[j] EXCEPT !.status = newRow.status, !.image_url = newRow.image_url,
                      !.error = newRow.error, !.updated_at = newRow.updated_at]]

\* An UPDATE ... WHERE id = jobId changes the row with that id, if there is one.
UpdateWhereId(table, jobId, newRow) ==
  IF jobId \in DOMAIN table THEN [table EXCEPT ![jobId] = newRow] ELSE table

\* INSERT INTO generations (id, job_id, image_url, prompt, model, created_at)
GenerationRecord(id, jobId, url, prompt, model, now) ==
  [id |-> id, job_id |-> jobId, image_url |-> url, prompt |-> prompt,
   model |-> model, created_at |-> now]

\* crypto.randomUUID() for a generations row: an identifier no record has.
NewGenerationId == Cardinality(generations) + 1

\* Messages thrown by the collaborators, as error.message reads in the catch block.
GenerationError == "Image generation failed"
UploadError == "Image upload failed"
\* D1 names the failing statement in its message.
DbError(statement) == "D1_ERROR: " \o statement

\* A slot with no invocation running.
IdleInv ==
  [pc |-> "idle", batch |-> <<>>, idx |-> 0, t |-> 0, url |-> None, err |-> None]

\* Top of the for loop on message idx of the batch: the body is destructured and the
\* UPDATE to 'processing' is issued with Date.now() = t.
StartMessage(batch, idx, t) ==
  [pc |-> "mark", batch |-> batch, idx |-> idx, t |-> t, url |-> None, err |-> None]

CurrentMessage(v) == v.batch[v.idx]
CurrentBody(v) == v.batch[v.idx].body

\* The catch block is entered with `error`; the UPDATE to 'failed' is issued with
\* Date.now() = t.
EnterCatch(v, errorMessage, t) ==
  [v EXCEPT !.pc = "catch", !.err = Some(errorMessage), !.t = t]

\* Non-empty sequences of at most MaxBatch distinct messages of q, in any order.
Batches(q) ==
  { b \in UNION { [1..n -> q] : n \in 1..MaxBatch } :
      \A i, j \in DOMAIN b : i # j => b[i] # b[j] }

\* message.retry(): the queue re-queues the message, or dead-letters it once it has
\* been delivered MaxRetries + 1 times.
RetryQueue(q, m) ==
  IF m.attempts <= MaxRetries THEN q \cup {QueueMessage(m.body, m.attempts + 1)} ELSE q
RetryDlq(d, m) ==
  IF m.attempts <= MaxRetries THEN d ELSE d \cup {m.body}

\* message.ack(): the queue forgets the delivered message.
AckQueue(q, m) == q

IdleSlots == {s \in Slots : inv[s].pc = "idle"}

\* The queue invokes queue(batch, env, ctx) on a batch of waiting messages.  Messages
\* in `kept` are delivered and also stay in the queue (a duplicate delivery).
Deliver(batch, kept) ==
  /\ IdleSlots # {}
  /\ kept \subseteq Range(batch)
  /\ dups + Cardinality(kept) <= MaxDup
  /\ LET s == CHOOSE x \in IdleSlots : \A y \in IdleSlots : x <= y IN
       \E t \in NowValues :
         /\ clock' = t
         /\ inv' = [inv EXCEPT ![s] = StartMessage(batch, 1, t)]
  /\ queue' = queue \ (Range(batch) \ kept)
  /\ dups' = dups + Cardinality(kept)
  /\ resp' = None
  /\ UNCHANGED <<jobs, generations, dlq, call, nextId, errlog, wait, list>>

\* After ack() or retry() the loop goes to the next message of the batch, or queue()
\* returns.
NextMessage(s) ==
  IF inv[s].idx < Len(inv[s].batch)
    THEN \E t \in NowValues :
           /\ clock' = t
           /\ inv' = [inv EXCEPT ![s] = StartMessage(inv[s].batch, inv[s].idx + 1, t)]
    ELSE /\ inv' = [inv EXCEPT ![s] = IdleInv]
         /\ UNCHANGED clock

\* An awaited operation of slot s throws `errorMessage`: control enters the catch block.
Throws(s, errorMessage) ==
  /\ \E t \in NowValues :
       /\ clock' = t
       /\ inv' = [inv EXCEPT ![s] = EnterCatch(inv[s], errorMessage, t)]
  /\ resp' = None
  /\ UNCHANGED <<jobs, generations, queue, dlq, dups, call, nextId, errlog, wait, list>>

\* A faulty step 1: generateImage is called without the 'processing' UPDATE.
ConsumerMarkSkipsWrite(s) ==
  /\ inv[s].pc = "mark"
  /\ inv' = [inv EXCEPT ![s].pc = "gen"]
  /\ resp' = None
  /\ UNCHANGED <<jobs, generations, queue, dlq, dups, call, clock, nextId, errlog, wait, list>>

\* Step 1 takes effect; generateImage is called (env.AI.run issued).
ConsumerMark(s) ==
  /\ inv[s].pc = "mark"
  /\ LET jobId == CurrentBody(inv[s]).jobId IN
       jobs' = UpdateWhereId(jobs, jobId, MarkProcessing(jobs[jobId], inv[s].t))
  /\ inv' = [inv EXCEPT ![s].pc = "gen"]
  /\ resp' = None
  /\ UNCHANGED <<generations, queue, dlq, dups, call, clock, nextId, errlog, wait, list>>

ConsumerMarkThrows(s) ==
  /\ inv[s].pc = "mark"
  /\ Throws(s, DbError("UPDATE processing"))

\* generateImage returns; uploadImage is called: timestamp = Date.now() and
\* R2_BUCKET.put is issued.
ConsumerGen(s) ==
  /\ inv[s].pc = "gen"
  /\ \E t \in NowValues :
       /\ clock' = t
       /\ inv' = [inv EXCEPT ![s].pc = "upload", ![s].t = t]
  /\ resp' = None
  /\ UNCHANGED <<jobs, generations, queue, dlq, dups, call, nextId, errlog, wait, list>>

ConsumerGenThrows(s) ==
  /\ inv[s].pc = "gen"
  /\ Throws(s, GenerationError)

\* The put succeeds and uploadImage returns downloadUrl; now = Date.now() and the
\* UPDATE to 'completed' is issued.
ConsumerUpload(s) ==
  /\ inv[s].pc = "upload"
  /\ \E now \in NowValues :
       /\ clock' = now
       /\ inv' = [inv EXCEPT
            ![s].pc = "complete",
            ![s].url = Some(DownloadUrl(Filename(inv[s].t, CurrentBody(inv[s]).prompt))),
            ![s].t = now]
  /\ resp' = None
  /\ UNCHANGED <<jobs, generations, queue, dlq, dups, call, nextId, errlog, wait, list>>

ConsumerUploadThrows(s) ==
  /\ inv[s].pc = "upload"
  /\ Throws(s, UploadError)

\* Step 4 takes effect; the INSERT into generations is issued with the same `now`.
ConsumerComplete(s) ==
  /\ inv[s].pc = "complete"
  /\ LET jobId == CurrentBody(inv[s]).jobId IN
       jobs' = UpdateWhereId(jobs, jobId, MarkCompleted(jobs[jobId], inv[s].url[1], inv[s].t))
  /\ inv' = [inv EXCEPT ![s].pc = "archive"]
  /\ resp' = None
  /\ UNCHANGED <<generations, queue, dlq, dups, call, clock, nextId, errlog, wait, list>>

ConsumerCompleteThrows(s) ==
  /\ inv[s].pc = "complete"
  /\ Throws(s, DbError("UPDATE completed"))

\* Step 5 takes effect (the foreign key needs the job row); message.ack() is called
\* and the loop goes on.
ConsumerArchive(s) ==
  /\ inv[s].pc = "archive"
  /\ LET body == CurrentBody(inv[s]) IN
       /\ body.jobId \in DOMAIN jobs
       /\ generations' = generations \cup
            {GenerationRecord(NewGenerationId, body.jobId, inv[s].url[1],
                              body.prompt, body.model, inv[s].t)}
  /\ queue' = AckQueue(queue, CurrentMessage(inv[s]))
  /\ NextMessage(s)
  /\ resp' = None
  /\ UNCHANGED <<jobs, dlq, dups, call, nextId, errlog, wait, list>>

ConsumerArchiveThrows(s) ==
  /\ inv[s].pc = "archive"
  /\ Throws(s, DbError("INSERT generations"))

\* A faulty catch block: the row of a job whose message is about to be dead-lettered
\* is deleted instead of marked failed.
ConsumerCatchDeletesRow(s) ==
  /\ inv[s].pc = "catch"
  /\ LET jobId == CurrentBody(inv[s]).jobId IN
       jobs' = IF CurrentMessage(inv[s]).attempts > MaxRetries
                 THEN [j \in DOMAIN jobs \ {jobId} |-> jobs[j]]
                 ELSE UpdateWhereId(jobs, jobId,
                                    MarkFailed(jobs[jobId], inv[s].err[1], inv[s].t))
  /\ queue' = RetryQueue(queue, CurrentMessage(inv[s]))
  /\ dlq' = RetryDlq(dlq, CurrentMessage(inv[s]))
  /\ NextMessage(s)
  /\ resp' = None
  /\ UNCHANGED <<generations, dups, call, nextId, errlog, wait, list>>

\* The UPDATE to 'failed' takes effect; message.retry() is called and the loop goes on.
ConsumerCatch(s) ==
  /\ inv[s].pc = "catch"
  /\ LET jobId == CurrentBody(inv[s]).jobId IN
       jobs' = UpdateWhereId(jobs, jobId, MarkFailed(jobs[jobId], inv[s].err[1], inv[s].t))
  /\ queue' = RetryQueue(queue, CurrentMessage(inv[s]))
  /\ dlq' = RetryDlq(dlq, CurrentMessage(inv[s]))
  /\ NextMessage(s)
  /\ resp' = None
  /\ UNCHANGED <<generations, dups, call, nextId, errlog, wait, list>>

\* A faulty catch block: when the UPDATE to 'failed' throws, dbError escapes queue();
\* retry() is not called and the rest of the batch is not processed.
ConsumerCatchThrowsEscapes(s) ==
  /\ inv[s].pc = "catch"
  /\ errlog' = errlog \cup {CurrentBody(inv[s]).jobId}
  /\ inv' = [inv EXCEPT ![s] = IdleInv]
  /\ resp' = None
  /\ UNCHANGED <<jobs, generations, queue, dlq, dups, call, clock, nextId, wait, list>>

\* The UPDATE to 'failed' throws: the inner catch logs dbError and swallows it;
\* message.retry() is called and the loop goes on.
ConsumerCatchThrows(s) ==
  /\ inv[s].pc = "catch"
  /\ errlog' = errlog \cup {CurrentBody(inv[s]).jobId}
  /\ queue' = RetryQueue(queue, CurrentMessage(inv[s]))
  /\ dlq' = RetryDlq(dlq, CurrentMessage(inv[s]))
  /\ NextMessage(s)
  /\ resp' = None
  /\ UNCHANGED <<jobs, generations, dups, call, nextId, wait, list>>

Consumer(s) ==
  \/ ConsumerMark(s)
  \/ ConsumerMarkThrows(s)
  \/ ConsumerGen(s)
  \/ ConsumerGenThrows(s)
  \/ ConsumerUpload(s)
  \/ ConsumerUploadThrows(s)
  \/ ConsumerComplete(s)
  \/ ConsumerCompleteThrows(s)
  \/ ConsumerArchive(s)
  \/ ConsumerArchiveThrows(s)
  \/ ConsumerCatch(s)
  \/ ConsumerCatchThrows(s)

\* Each delivered message leaves the queue.
DeliverSome == \E batch \in Batches(queue) : Deliver(batch, {})

\* At-least-once delivery: some delivered message is delivered again later.
DeliverDuplicate ==
  \E batch \in Batches(queue) :
    \E kept \in SUBSET Range(batch) : kept # {} /\ Deliver(batch, kept)

(* ---------------------------------------------------- wait_for_completion *)
\* WaitForCompletionSchema.parse(args): the union takes { job_id } when args has a
\* job_id, otherwise { job_ids } with 1..20 ids; None when zod rejects the arguments.
\* isSingle = 'job_id' in params; jobIds = isSingle ? [params.job_id] : params.job_ids.
ParseWait(args) ==
  IF args.job_id # Omitted
    THEN Some([isSingle |-> TRUE, jobIds |-> <<args.job_id[1]>>])
    ELSE IF /\ args.job_ids # Omitted
            /\ Len(args.job_ids[1]) >= MinJobIds
            /\ Len(args.job_ids[1]) <= MaxJobIds
           THEN Some([isSingle |-> FALSE, jobIds |-> args.job_ids[1]])
           ELSE None

\* A faulty deadline: the same for any number of jobs.
MAX_WAIT_Unscaled(jobIds) == BASE_TIMEOUT

\* MAX_WAIT = BASE_TIMEOUT + (jobIds.length * PER_JOB_TIMEOUT)
MAX_WAIT(jobIds) == BASE_TIMEOUT + (Len(jobIds) * PER_JOB_TIMEOUT)

\* Math.round(MAX_WAIT / 1000)
TimeoutSeconds(maxWait) == (maxWait + 500) \div 1000

\* SELECT * FROM generation_jobs WHERE id IN (...jobIds): the rows, one per id found.
SelectJobs(jobIds) == {jobs[j] : j \in Range(jobIds) \cap DOMAIN jobs}

\* The JSON object wait_for_completion returns, with isError beside it.  Fields the
\* response does not carry are None; arrays are sets (SQL fixes no row order).
WaitResponse ==
  [success |-> FALSE, isError |-> TRUE, error |-> None, status |-> None,
   image_url |-> None, prompt |-> None, model |-> None, count |-> None,
   results |-> None, failed |-> None, completed |-> None]

\* A faulty not-found response: isError is not set.
NotFoundResponseNotError ==
  [WaitResponse EXCEPT !.error = Some("One or more jobs not found"), !.isError = FALSE]

NotFoundResponse == [WaitResponse EXCEPT !.error = Some("One or more jobs not found")]

\* A faulty failure response: the completed jobs are left out.
FailedResponseWithoutCompleted(isSingle, failed, completed) ==
  IF isSingle
    THEN LET job == CHOOSE j \in failed : TRUE IN
           [WaitResponse EXCEPT !.status = Some("failed"), !.error = job.error]
    ELSE [WaitResponse EXCEPT
            !.error = Some(ToString(Cardinality(failed)) \o " job(s) failed"),
            !.failed = Some({[job_id |-> j.id, error |-> j.error] : j \in failed}),
            !.completed = Some({})]

FailedResponse(isSingle, failed, completed) ==
  IF isSingle
    THEN LET job == CHOOSE j \in failed : TRUE IN
           [WaitResponse EXCEPT
              !.status = Some("failed"),
              !.error = IF job.error # None THEN job.error ELSE Some("Generation failed")]
    ELSE [WaitResponse EXCEPT
            !.error = Some(ToString(Cardinality(failed)) \o " job(s) failed"),
            !.failed = Some({[job_id |-> j.id, error |-> j.error] : j \in failed}),
            !.completed =
               Some({[job_id |-> j.id, image_url |-> j.image_url] : j \in completed})]

\* A faulty success response: the image_urls are left out.
CompletedResponseWithoutUrl(isSingle, completed) ==
  IF isSingle
    THEN LET job == CHOOSE j \in completed : TRUE IN
           [WaitResponse EXCEPT
              !.success = TRUE, !.isError = FALSE,
              !.status = Some("completed"),
              !.prompt = Some(job.prompt),
              !.model = Some(job.model)]
    ELSE [WaitResponse EXCEPT
            !.success = TRUE, !.isError = FALSE,
            !.count = Some(Cardinality(completed)),
            !.results = Some({[job_id |-> j.id, image_url |-> None,
                               prompt |-> j.prompt, model |-> j.model] : j \in completed})]

CompletedResponse(isSingle, completed) ==
  IF isSingle
    THEN LET job == CHOOSE j \in completed : TRUE IN
           [WaitResponse EXCEPT
              !.success = TRUE, !.isError = FALSE,
              !.status = Some("completed"),
              !.image_url = job.image_url,
              !.prompt = Some(job.prompt),
              !.model = Some(job.model)]
    ELSE [WaitResponse EXCEPT
            !.success = TRUE, !.isError = FALSE,
            !.count = Some(Cardinality(completed)),
            !.results = Some({[job_id |-> j.id, image_url |-> j.image_url,
                               prompt |-> j.prompt, model |-> j.model] : j \in completed})]

\* A faulty timeout response: isError is not set.
TimeoutResponseNotError(maxWait) ==
  [WaitResponse EXCEPT
     !.isError = FALSE,
     !.error = Some("Timeout: Image generation took longer than "
                    \o ToString(TimeoutSeconds(maxWait)) \o " seconds")]

TimeoutResponse(maxWait) ==
  [WaitResponse EXCEPT
     !.error = Some("Timeout: Image generation took longer than "
                    \o ToString(TimeoutSeconds(maxWait)) \o " seconds")]

\* No wait_for_completion call has been made.  elapsed is Date.now() - startTime in
\* ms, polls the number of SELECTs issued; both and the outcome stay readable after
\* the call has returned (pc = "returned").
IdleWait ==
  [pc |-> "idle", isSingle |-> TRUE, jobIds |-> <<>>, elapsed |-> 0, polls |-> 0,
   outcome |-> "none"]

\* The call returns `response`; w holds its locals at that moment.
WaitReturns(w, outcome, response) ==
  /\ wait' = [w EXCEPT !.pc = "returned", !.outcome = outcome]
  /\ resp' = Some(response)

\* A caller invokes wait_for_completion(args).  Rejected arguments go to the catch
\* block; otherwise startTime = Date.now(), the loop guard holds (0 < MAX_WAIT) and the
\* first SELECT is issued.
WaitStart(args) ==
  /\ wait.pc \in {"idle", "returned"}
  /\ LET parsed == ParseWait(args) IN
       IF parsed = None
         THEN WaitReturns(IdleWait, "error", ErrorResponse("ZodError"))
         ELSE /\ wait' = [pc |-> "query", isSingle |-> parsed[1].isSingle,
                          jobIds |-> parsed[1].jobIds, elapsed |-> 0, polls |-> 1,
                          outcome |-> "none"]
              /\ resp' = None
  /\ UNCHANGED <<jobs, generations, queue, dlq, dups, inv, call, clock, nextId, errlog, list>>

\* The SELECT settles after d ms with the rows as they are now; the call returns
\* not-found, failure or success, or setTimeout(resolve, POLL_INTERVAL) is issued.
WaitQuery ==
  /\ wait.pc = "query"
  /\ \E d \in QueryLatencies :
       LET w == [wait EXCEPT !.elapsed = wait.elapsed + d]
           results == SelectJobs(wait.jobIds)
           completed == {j \in results : j.status = "completed"}
           failed == {j \in results : j.status = "failed"}
           pending == {j \in results : j.status \in {"pending", "processing"}}
       IN IF Cardinality(results) # Len(wait.jobIds)
            THEN WaitReturns(w, "not_found", NotFoundResponse)
            ELSE IF Cardinality(failed) > 0
              THEN WaitReturns(w, "failed", FailedResponse(wait.isSingle, failed, completed))
              ELSE IF Cardinality(pending) = 0
                THEN WaitReturns(w, "success", CompletedResponse(wait.isSingle, completed))
                ELSE /\ wait' = [w EXCEPT !.pc = "sleep"]
                     /\ resp' = None
  /\ UNCHANGED <<jobs, generations, queue, dlq, dups, inv, call, clock, nextId, errlog, list>>

\* The SELECT throws (D1 error): the catch block returns an error response.
WaitQueryThrows ==
  /\ wait.pc = "query"
  /\ WaitReturns(wait, "error", ErrorResponse(DbError("SELECT generation_jobs")))
  /\ UNCHANGED <<jobs, generations, queue, dlq, dups, inv, call, clock, nextId, errlog, list>>

\* A faulty timer step: giving up marks the named jobs that are not settled failed.
WaitSleepFailsJobs ==
  /\ wait.pc = "sleep"
  /\ LET w == [wait EXCEPT !.elapsed = wait.elapsed + POLL_INTERVAL] IN
       IF w.elapsed < MAX_WAIT(wait.jobIds)
         THEN /\ wait' = [w EXCEPT !.pc = "query", !.polls = wait.polls + 1]
              /\ resp' = None
              /\ UNCHANGED jobs
         ELSE /\ WaitReturns(w, "timeout", TimeoutResponse(MAX_WAIT(wait.jobIds)))
              /\ jobs' = [j \in DOMAIN jobs |->
                            IF /\ j \in Range(wait.jobIds)
                               /\ jobs[j].status \in {"pending", "processing"}
                              THEN MarkFailed(jobs[j], "Timeout", clock)
                              ELSE jobs[j]]
  /\ UNCHANGED <<generations, queue, dlq, dups, inv, call, clock, nextId, errlog, list>>

\* The timer fires POLL_INTERVAL ms later; the loop guard reads Date.now() and either
\* the next SELECT is issued or the call returns the timeout error.
WaitSleep ==
  /\ wait.pc = "sleep"
  /\ LET w == [wait EXCEPT !.elapsed = wait.elapsed + POLL_INTERVAL] IN
       IF w.elapsed < MAX_WAIT(wait.jobIds)
         THEN /\ wait' = [w EXCEPT !.pc = "query", !.polls = wait.polls + 1]
              /\ resp' = None
         ELSE WaitReturns(w, "timeout", TimeoutResponse(MAX_WAIT(wait.jobIds)))
  /\ UNCHANGED <<jobs, generations, queue, dlq, dups, inv, call, clock, nextId, errlog, list>>

(* ------------------------------------------------------- get_job_status *)
\* GetJobStatusSchema.parse(args): job_id is a string of at least one character.
ParseGet(args) ==
  IF args.job_id # Omitted /\ args.job_id[1] # EmptyId
    THEN Some([job_id |-> args.job_id[1]])
    ELSE None

\* The JSON object get_job_status returns, with isError beside it.
JobNotFoundResponse(jobId) ==
  [success |-> FALSE, isError |-> TRUE, error |-> Some("Job not found"),
   job_id |-> Some(jobId), status |-> None, image_url |-> None, prompt |-> None,
   model |-> None, created_at |-> None, updated_at |-> None]

\* A faulty status response: the image_url is left out.
JobStatusResponseWithoutUrl(row) ==
  [success |-> TRUE, isError |-> FALSE, error |-> row.error,
   job_id |-> Some(row.id), status |-> Some(row.status), image_url |-> None,
   prompt |-> Some(row.prompt), model |-> Some(row.model),
   created_at |-> Some(row.created_at), updated_at |-> Some(row.updated_at)]

JobStatusResponse(row) ==
  [success |-> TRUE, isError |-> FALSE, error |-> row.error,
   job_id |-> Some(row.id), status |-> Some(row.status), image_url |-> row.image_url,
   prompt |-> Some(row.prompt), model |-> Some(row.model),
   created_at |-> Some(row.created_at), updated_at |-> Some(row.updated_at)]

\* A caller invokes get_job_status(args): rejected arguments go to the catch block;
\* otherwise SELECT * FROM generation_jobs WHERE id = ? settles with the row as it is
\* now, or with no row, and the call returns.
GetJobStatus(args) ==
  /\ LET parsed == ParseGet(args) IN
       IF parsed = None
         THEN resp' = Some(ErrorResponse("ZodError"))
         ELSE IF parsed[1].job_id \in DOMAIN jobs
           THEN resp' = Some(JobStatusResponse(jobs[parsed[1].job_id]))
           ELSE resp' = Some(JobNotFoundResponse(parsed[1].job_id))
  /\ UNCHANGED <<jobs, generations, queue, dlq, dups, inv, call, clock, nextId, errlog,
                 wait, list>>

\* The SELECT throws (D1 error): the catch block returns an error response.
GetJobStatusThrows(args) ==
  /\ ParseGet(args) # None
  /\ resp' = Some(ErrorResponse(DbError("SELECT generation_jobs")))
  /\ UNCHANGED <<jobs, generations, queue, dlq, dups, inv, call, clock, nextId, errlog,
                 wait, list>>

(* ------------------------------------------------ generate_image_and_wait *)
\* genData.count && genData.count > 1 ? { job_ids: genData.job_ids }
\*                                     : { job_id: genData.job_id }
\* where genData is the response of the generate_image step; a field the response
\* does not carry is undefined, which JSON leaves out of the argument object.
\* A faulty hand-over: the job_id form is used whatever the count.
WaitArgsOfAlwaysSingle(genData) == [job_id |-> genData.job_id, job_ids |-> Omitted]

WaitArgsOf(genData) ==
  IF genData.count # None /\ genData.count[1] > 1
    THEN [job_id |-> Omitted, job_ids |-> genData.job_ids]
    ELSE [job_id |-> genData.job_id, job_ids |-> Omitted]

\* The generate_image step of generate_image_and_wait has returned genData;
\* callImageTool('wait_for_completion', ...) runs up to its first await, or returns
\* the error response for arguments its schema rejects.
ThenWait(genData) ==
  /\ call' = IdleCall
  /\ LET parsed == ParseWait(WaitArgsOf(genData)) IN
       IF parsed = None
         THEN WaitReturns(IdleWait, "error", ErrorResponse("ZodError"))
         ELSE /\ wait' = [pc |-> "query", isSingle |-> parsed[1].isSingle,
                          jobIds |-> parsed[1].jobIds, elapsed |-> 0, polls |-> 1,
                          outcome |-> "none"]
              /\ resp' = None

\* A caller invokes generate_image_and_wait(args): callImageTool('generate_image',
\* args, env) runs up to its first await, or returns the error response for rejected
\* arguments, with which the wait step is entered.
ComboStart(args) ==
  /\ call.pc = "idle"
  /\ wait.pc \in {"idle", "returned"}
  /\ LET parsed == ParseGenerateImage(args) IN
       IF parsed = None
         THEN /\ ThenWait(ErrorResponse("ZodError"))
              /\ UNCHANGED <<clock, nextId>>
         ELSE /\ nextId + parsed[1].count - 1 <= MaxJobs
              /\ \E t \in NowValues :
                   /\ clock' = t
                   /\ call' = [IssueInsert([IdleCall EXCEPT !.params = parsed[1], !.now = t])
                                 EXCEPT !.pc = "combo_insert"]
              /\ resp' = None
              /\ nextId' = nextId + 1
              /\ UNCHANGED wait
  /\ UNCHANGED <<jobs, generations, queue, dlq, dups, inv, errlog, list>>

\* The INSERT of the generate step takes effect; the send is issued.
ComboInsert ==
  /\ call.pc = "combo_insert"
  /\ LET jobId == call.jobIds[Len(call.jobIds)] IN
       jobs' = jobs @@ (jobId :> NewJobRow(jobId, call.params.prompt, call.params.model, call.now))
  /\ call' = [call EXCEPT !.pc = "combo_send"]
  /\ resp' = None
  /\ UNCHANGED <<generations, queue, dlq, dups, inv, clock, nextId, errlog, wait, list>>

\* The INSERT throws: the generate step returns its error response.
ComboInsertThrows ==
  /\ call.pc = "combo_insert"
  /\ ThenWait(ErrorResponse("D1_ERROR: INSERT generation_jobs"))
  /\ UNCHANGED <<jobs, generations, queue, dlq, dups, inv, clock, nextId, errlog, list>>

\* The send takes effect; the next iteration starts, or the generate step returns its
\* response and the wait step is entered with the identifiers in it.
ComboSend ==
  /\ call.pc = "combo_send"
  /\ LET jobId == call.jobIds[Len(call.jobIds)] IN
       queue' = queue \cup
                {QueueMessage(WorkUnit(jobId, call.params.prompt, call.params.model), 1)}
  /\ IF call.i + 1 < call.params.count
       THEN /\ call' = [IssueInsert([call EXCEPT !.i = call.i + 1])
                          EXCEPT !.pc = "combo_insert"]
            /\ resp' = None
            /\ nextId' = nextId + 1
            /\ UNCHANGED wait
       ELSE /\ ThenWait(GenerateResponse(call.params, call.jobIds))
            /\ UNCHANGED nextId
  /\ UNCHANGED <<jobs, generations, dlq, dups, inv, clock, errlog, list>>

\* The send throws: the generate step returns its error response.
ComboSendThrows ==
  /\ call.pc = "combo_send"
  /\ ThenWait(ErrorResponse("Queue send failed"))
  /\ UNCHANGED <<jobs, generations, queue, dlq, dups, inv, clock, nextId, errlog, list>>

(* ----------------------------------------------------------- unknown tool *)
\* default: throw new Error(`Unknown tool: ${name}`), caught by the catch block.
UnknownTool(name) ==
  /\ resp' = Some(ErrorResponse("Unknown tool: " \o name))
  /\ UNCHANGED <<jobs, generations, queue, dlq, dups, inv, call, clock, nextId, errlog,
                 wait, list>>

(* ------------------------------------------- list_jobs, list_generations *)
\* ListJobsSchema.parse(args) / ListGenerationsSchema.parse(args): None when zod rejects
\* the arguments, otherwise the parameters with the defaults filled in.
\* list_generations has no status parameter; its filter is 'all'.
ValidLimit(l) == l = Omitted \/ (l[1] \in Int /\ l[1] >= MinLimit /\ l[1] <= MaxLimit)
ValidOffset(o) == o = Omitted \/ (o[1] \in Int /\ o[1] >= MinOffset)
ValidStatus(st) == st = Omitted \/ st[1] \in StatusFilters

ParseList(tool, args) ==
  IF /\ ValidLimit(args.limit)
     /\ ValidOffset(args.offset)
     /\ (tool = "list_jobs" => ValidStatus(args.status))
    THEN Some([status |-> IF tool = "list_jobs" /\ args.status # Omitted
                            THEN args.status[1] ELSE DefaultStatus,
               limit |-> IF args.limit = Omitted THEN DefaultLimit ELSE args.limit[1],
               offset |-> IF args.offset = Omitted THEN DefaultOffset ELSE args.offset[1]])
    ELSE None

\* A faulty WHERE clause: the status filter is not applied.
ListedRowsUnfiltered(tool, status) ==
  IF tool = "list_generations"
    THEN generations
    ELSE {jobs[j] : j \in DOMAIN jobs}

\* The rows the two queries of a list call range over:
\* FROM generations, or FROM generation_jobs [WHERE status = ?].
ListedRows(tool, status) ==
  IF tool = "list_generations"
    THEN generations
    ELSE {jobs[j] : j \in {k \in DOMAIN jobs : status = "all" \/ jobs[k].status = status}}

\* ORDER BY created_at DESC: the sequences holding every row once, newest first
\* (rows of equal created_at in any order).
Ordered(rows) ==
  {sq \in [1..Cardinality(rows) -> rows] :
     /\ \A i, j \in DOMAIN sq : i # j => sq[i] # sq[j]
     /\ \A i, j \in DOMAIN sq : i < j => sq[i].created_at >= sq[j].created_at}

\* A faulty page: the offset is not applied.
PageFromTop(sq, limit, offset) ==
  SubSeq(sq, 1, IF limit < Len(sq) THEN limit ELSE Len(sq))

\* LIMIT ? OFFSET ?
Page(sq, limit, offset) ==
  SubSeq(sq, offset + 1, IF offset + limit < Len(sq) THEN offset + limit ELSE Len(sq))

\* The JSON object a list call returns; list_generations carries no filter and its
\* rows under `generations`, list_jobs its rows under `jobs`.
ListResponse(tool, params, totalCount, results) ==
  [success |-> TRUE, isError |-> FALSE, error |-> None,
   filter |-> IF tool = "list_jobs" THEN Some(params.status) ELSE None,
   total_count |-> totalCount,
   returned_count |-> Len(results),
   has_more |-> (params.offset + Len(results) < totalCount),
   limit |-> params.limit,
   offset |-> params.offset,
   jobs |-> IF tool = "list_jobs" THEN Some(results) ELSE None,
   generations |-> IF tool = "list_generations" THEN Some(results) ELSE None]

NoListParams == [status |-> DefaultStatus, limit |-> DefaultLimit, offset |-> DefaultOffset]

\* No list call is in progress.
IdleList == [pc |-> "idle", tool |-> "list_jobs", params |-> NoListParams, totalCount |-> 0]

ListReturns(response) ==
  /\ list' = IdleList
  /\ resp' = Some(response)

\* A caller invokes list_jobs(args) or list_generations(args): rejected arguments go to
\* the catch block, otherwise the SELECT COUNT(*) is issued.
ListStart(tool, args) ==
  /\ list.pc = "idle"
  /\ LET parsed == ParseList(tool, args) IN
       IF parsed = None
         THEN ListReturns(ErrorResponse("ZodError"))
         ELSE /\ list' = [pc |-> "count", tool |-> tool, params |-> parsed[1],
                          totalCount |-> 0]
              /\ resp' = None
  /\ UNCHANGED <<jobs, generations, queue, dlq, dups, inv, call, clock, nextId, errlog, wait>>

\* The COUNT settles: totalCount = countResult?.total || 0; the page SELECT is issued.
ListCount ==
  /\ list.pc = "count"
  /\ list' = [list EXCEPT
                !.pc = "page",
                !.totalCount = Cardinality(ListedRows(list.tool, list.params.status))]
  /\ resp' = None
  /\ UNCHANGED <<jobs, generations, queue, dlq, dups, inv, call, clock, nextId, errlog, wait>>

ListCountThrows ==
  /\ list.pc = "count"
  /\ ListReturns(ErrorResponse(DbError("SELECT COUNT")))
  /\ UNCHANGED <<jobs, generations, queue, dlq, dups, inv, call, clock, nextId, errlog, wait>>

\* The page SELECT settles with the rows as they are now; the call returns.
ListPage ==
  /\ list.pc = "page"
  /\ \E sq \in Ordered(ListedRows(list.tool, list.params.status)) :
       ListReturns(ListResponse(list.tool, list.params, list.totalCount,
                                Page(sq, list.params.limit, list.params.offset)))
  /\ UNCHANGED <<jobs, generations, queue, dlq, dups, inv, call, clock, nextId, errlog, wait>>

ListPageThrows ==
  /\ list.pc = "page"
  /\ ListReturns(ErrorResponse(DbError("SELECT page")))
  /\ UNCHANGED <<jobs, generations, queue, dlq, dups, inv, call, clock, nextId, errlog, wait>>

(* ------------------------------------- SSE transport: registerImageTools *)
\* The tools/call handler registered by registerImageTools serves generate_image,
\* get_job_status, list_generations and list_jobs with schemas and code of its own.
\* Its locals live in `call` and `list` under program counters of their own.

\* GenerateImageSchema.parse(request.params.arguments) of the SSE handler: the schema
\* has the keys prompt and model only; z.object strips the keys it does not know, so
\* a count among the arguments is dropped unexamined.
SseParseGenerateImage(args) ==
  IF ValidPrompt(args.prompt) /\ ValidModel(args.model)
    THEN Some([prompt |-> args.prompt,
               model |-> IF args.model = Omitted THEN DefaultModel ELSE args.model[1]])
    ELSE None

\* error.message of the ZodError: the SSE schemas give the prompt and job_id checks
\* messages of their own.
SseZodMessage(tool, args) ==
  IF tool = "generate_image" /\ Len(args.prompt) < MinPromptLen
    THEN "ZodError: Prompt must be at least 3 characters"
  ELSE IF tool = "generate_image" /\ Len(args.prompt) > MaxPromptLen
    THEN "ZodError: Prompt must be under 1000 characters"
  ELSE IF tool = "get_job_status" /\ args.job_id = Some(EmptyId)
    THEN "ZodError: Job ID is required"
  ELSE "ZodError"

\* The response of the SSE generate_image: always the single-job form.
SseGenerateResponse(params, jobId) ==
  [success |-> TRUE, isError |-> FALSE, error |-> None,
   job_id |-> Some(jobId), job_ids |-> None, count |-> None,
   status |-> Some("pending"), prompt |-> Some(params.prompt),
   model |-> Some(params.model),
   estimated_time_seconds |-> Some(EstimatedTimeSeconds)]

\* A client invokes generate_image(args) over SSE.  Rejected arguments go to the outer
\* catch block; otherwise jobId = crypto.randomUUID(), now = Date.now() and the INSERT
\* is issued.
SseGenStart(args) ==
  /\ call.pc = "idle"
  /\ LET parsed == SseParseGenerateImage(args) IN
       IF parsed = None
         THEN /\ Returns(ErrorResponse(SseZodMessage("generate_image", args)))
              /\ UNCHANGED <<clock, nextId>>
         ELSE /\ nextId <= MaxJobs
              /\ \E t \in NowValues :
                   /\ clock' = t
                   /\ call' = [pc |-> "sse_insert", args |-> args, params |-> parsed[1],
                               now |-> t, jobIds |-> <<nextId>>, i |-> 0]
              /\ resp' = None
              /\ nextId' = nextId + 1
  /\ UNCHANGED <<jobs, generations, queue, dlq, dups, inv, errlog, wait, list>>

\* The INSERT of the job row takes effect; IMAGE_QUEUE.send(message) is issued.
SseGenInsert ==
  /\ call.pc = "sse_insert"
  /\ LET jobId == call.jobIds[1] IN
       jobs' = jobs @@ (jobId :> NewJobRow(jobId, call.params.prompt, call.params.model, call.now))
  /\ call' = [call EXCEPT !.pc = "sse_send"]
  /\ resp' = None
  /\ UNCHANGED <<generations, queue, dlq, dups, inv, clock, nextId, errlog, wait, list>>

\* The INSERT throws: the inner catch block returns an error response.
SseGenInsertThrows ==
  /\ call.pc = "sse_insert"
  /\ Returns(ErrorResponse("D1_ERROR: INSERT generation_jobs"))
  /\ UNCHANGED <<jobs, generations, queue, dlq, dups, inv, clock, nextId, errlog, wait, list>>

\* The send takes effect; the handler returns the job id.
SseGenSend ==
  /\ call.pc = "sse_send"
  /\ LET jobId == call.jobIds[1] IN
       /\ queue' = queue \cup
            {QueueMessage(WorkUnit(jobId, call.params.prompt, call.params.model), 1)}
       /\ Returns(SseGenerateResponse(call.params, jobId))
  /\ UNCHANGED <<jobs, generations, dlq, dups, inv, clock, nextId, errlog, wait, list>>

\* The send throws: the inner catch block returns an error response; the row stays.
SseGenSendThrows ==
  /\ call.pc = "sse_send"
  /\ Returns(ErrorResponse("Queue send failed"))
  /\ UNCHANGED <<jobs, generations, queue, dlq, dups, inv, clock, nextId, errlog, wait, list>>

\* get_job_status over SSE: parse, SELECT * FROM generation_jobs WHERE id = ?, return.
SseGetJobStatus(args) ==
  /\ IF args.job_id = Omitted \/ args.job_id[1] = EmptyId
       THEN resp' = Some(ErrorResponse(SseZodMessage("get_job_status", args)))
       ELSE IF args.job_id[1] \in DOMAIN jobs
         THEN LET result == jobs[args.job_id[1]] IN
           resp' = Some([success |-> TRUE, isError |-> FALSE, error |-> result.error,
                         job_id |-> Some(result.id), status |-> Some(result.status),
                         image_url |-> result.image_url, prompt |-> Some(result.prompt),
                         model |-> Some(result.model),
                         created_at |-> Some(result.created_at),
                         updated_at |-> Some(result.updated_at)])
         ELSE resp' = Some([success |-> FALSE, isError |-> TRUE,
                            error |-> Some("Job not found"),
                            job_id |-> Some(args.job_id[1]), status |-> None,
                            image_url |-> None, prompt |-> None, model |-> None,
                            created_at |-> None, updated_at |-> None])
  /\ UNCHANGED <<jobs, generations, queue, dlq, dups, inv, call, clock, nextId, errlog,
                 wait, list>>

\* The SELECT throws: the inner catch block returns an error response.
SseGetJobStatusThrows(args) ==
  /\ args.job_id # Omitted /\ args.job_id[1] # EmptyId
  /\ resp' = Some(ErrorResponse(DbError("SELECT generation_jobs")))
  /\ UNCHANGED <<jobs, generations, queue, dlq, dups, inv, call, clock, nextId, errlog,
                 wait, list>>

\* ListGenerationsSchema / ListJobsSchema of the SSE handler.
SseParseList(tool, args) ==
  IF /\ (args.limit = Omitted \/
           (args.limit[1] \in Int /\ args.limit[1] >= MinLimit /\ args.limit[1] <= MaxLimit))
     /\ (args.offset = Omitted \/ (args.offset[1] \in Int /\ args.offset[1] >= MinOffset))
     /\ (tool = "list_jobs" => (args.status = Omitted \/ args.status[1] \in StatusFilters))
    THEN Some([status |-> IF tool = "list_jobs" /\ args.status # Omitted
                            THEN args.status[1] ELSE DefaultStatus,
               limit |-> IF args.limit = Omitted THEN DefaultLimit ELSE args.limit[1],
               offset |-> IF args.offset = Omitted THEN DefaultOffset ELSE args.offset[1]])
    ELSE None

\* FROM generations, or FROM generation_jobs ${whereClause}.
SseListedRows(tool, status) ==
  IF tool = "list_generations"
    THEN generations
    ELSE IF status = "all"
      THEN {jobs[j] : j \in DOMAIN jobs}
      ELSE {jobs[j] : j \in {k \in DOMAIN jobs : jobs[k].status = status}}

\* A client invokes list_jobs(args) or list_generations(args) over SSE.
SseListStart(tool, args) ==
  /\ list.pc = "idle"
  /\ LET parsed == SseParseList(tool, args) IN
       IF parsed = None
         THEN ListReturns(ErrorResponse(SseZodMessage(tool, args)))
         ELSE /\ list' = [pc |-> "sse_count", tool |-> tool, params |-> parsed[1],
                          totalCount |-> 0]
              /\ resp' = None
  /\ UNCHANGED <<jobs, generations, queue, dlq, dups, inv, call, clock, nextId, errlog, wait>>

\* The COUNT settles; the page SELECT is issued.
SseListCount ==
  /\ list.pc = "sse_count"
  /\ list' = [list EXCEPT
                !.pc = "sse_page",
                !.totalCount = Cardinality(SseListedRows(list.tool, list.params.status))]
  /\ resp' = None
  /\ UNCHANGED <<jobs, generations, queue, dlq, dups, inv, call, clock, nextId, errlog, wait>>

SseListCountThrows ==
  /\ list.pc = "sse_count"
  /\ ListReturns(ErrorResponse(DbError("SELECT COUNT")))
  /\ UNCHANGED <<jobs, generations, queue, dlq, dups, inv, call, clock, nextId, errlog, wait>>

\* The page SELECT settles (ORDER BY created_at DESC LIMIT ? OFFSET ?); the handler
\* returns the page.
SseListPage ==
  /\ list.pc = "sse_page"
  /\ \E sq \in Ordered(SseListedRows(list.tool, list.params.status)) :
       LET results == SubSeq(sq, list.params.offset + 1,
                             IF list.params.offset + list.params.limit < Len(sq)
                               THEN list.params.offset + list.params.limit ELSE Len(sq))
       IN ListReturns(
            [success |-> TRUE, isError |-> FALSE, error |-> None,
             filter |-> IF list.tool = "list_jobs" THEN Some(list.params.status) ELSE None,
             total_count |-> list.totalCount,
             returned_count |-> Len(results),
             has_more |-> (list.params.offset + Len(results) < list.totalCount),
             limit |-> list.params.limit,
             offset |-> list.params.offset,
             jobs |-> IF list.tool = "list_jobs" THEN Some(results) ELSE None,
             generations |-> IF list.tool = "list_generations" THEN Some(results) ELSE None])
  /\ UNCHANGED <<jobs, generations, queue, dlq, dups, inv, call, clock, nextId, errlog, wait>>

SseListPageThrows ==
  /\ list.pc = "sse_page"
  /\ ListReturns(ErrorResponse(DbError("SELECT page")))
  /\ UNCHANGED <<jobs, generations, queue, dlq, dups, inv, call, clock, nextId, errlog, wait>>

\* Any other tool name: throw new Error(`Unknown tool: ${toolName}`), caught by the
\* outer catch block.
SseUnknownTool(name) ==
  /\ resp' = Some(ErrorResponse("Unknown tool: " \o name))
  /\ UNCHANGED <<jobs, generations, queue, dlq, dups, inv, call, clock, nextId, errlog,
                 wait, list>>

(* ---------------------------------------------------------- specification *)
Init ==
  /\ jobs = <<>>
  /\ generations = {}
  /\ queue = {}
  /\ dlq = {}
  /\ dups = 0
  /\ inv = [s \in 1..MaxConcurrency |-> IdleInv]
  /\ call = IdleCall
  /\ resp = None
  /\ clock = 0
  /\ nextId = 1
  /\ errlog = {}
  /\ wait = IdleWait
  /\ list = IdleList

Next ==
  \/ \E args \in TestArgs : GenStart(args)
  \/ GenInsert
  \/ GenInsertThrows
  \/ GenSend
  \/ GenSendThrows
  \/ DeliverSome
  \/ \E s \in Slots : ConsumerMark(s)
  \/ \E s \in Slots : ConsumerMarkThrows(s)
  \/ \E s \in Slots : ConsumerGen(s)
  \/ \E s \in Slots : ConsumerGenThrows(s)
  \/ \E s \in Slots : ConsumerUpload(s)
  \/ \E s \in Slots : ConsumerUploadThrows(s)
  \/ \E s \in Slots : ConsumerComplete(s)
  \/ \E s \in Slots : ConsumerCompleteThrows(s)
  \/ \E s \in Slots : ConsumerArchive(s)
  \/ \E s \in Slots : ConsumerArchiveThrows(s)
  \/ \E s \in Slots : ConsumerCatch(s)
  \/ \E s \in Slots : ConsumerCatchThrows(s)

Spec == Init /\ [][Next]_vars

\* One job created and dispatched by generate_image({prompt: "Red"}), which has just
\* returned; the queue runs up to `slots` invocations at once.
DispatchedInit(slots) ==
  /\ jobs = (1 :> NewJobRow(1, PromptRed, DefaultModel, 0))
  /\ generations = {}
  /\ queue = {QueueMessage(WorkUnit(1, PromptRed, DefaultModel), 1)}
  /\ dlq = {}
  /\ dups = 0
  /\ inv = [s \in 1..slots |-> IdleInv]
  /\ call = IdleCall
  /\ resp = Some(SingleJobResponse(
                   [prompt |-> PromptRed, model |-> DefaultModel, count |-> DefaultCount],
                   <<1>>))
  /\ clock = 0
  /\ nextId = 2
  /\ errlog = {}
  /\ wait = IdleWait
  /\ list = IdleList

\* The queue runs one more invocation for each duplicate delivery.
DupInit == DispatchedInit(MaxConcurrency + MaxDup)

ConsumerNext ==
  \/ DeliverSome
  \/ \E s \in Slots : ConsumerMark(s)
  \/ \E s \in Slots : ConsumerMarkThrows(s)
  \/ \E s \in Slots : ConsumerGen(s)
  \/ \E s \in Slots : ConsumerGenThrows(s)
  \/ \E s \in Slots : ConsumerUpload(s)
  \/ \E s \in Slots : ConsumerUploadThrows(s)
  \/ \E s \in Slots : ConsumerComplete(s)
  \/ \E s \in Slots : ConsumerCompleteThrows(s)
  \/ \E s \in Slots : ConsumerArchive(s)
  \/ \E s \in Slots : ConsumerArchiveThrows(s)
  \/ \E s \in Slots : ConsumerCatch(s)
  \/ \E s \in Slots : ConsumerCatchThrows(s)

DupNext ==
  \/ DeliverDuplicate
  \/ ConsumerNext

DupSpec == DupInit /\ [][DupNext]_vars


(* --------------------------------------------------- callers and the store *)
\* Two generate_image calls have returned: job 1 ("Red") is pending with its work unit
\* in `q` (empty when the send failed); job 2 ("a!B") has been processed to the end and
\* is `row2`, with the records `gens` and the dead-lettered bodies `dead`.
StoreInit(q, row2, gens, dead) ==
  /\ jobs = (1 :> NewJobRow(1, PromptRed, DefaultModel, 0)) @@ (2 :> row2)
  /\ generations = gens
  /\ queue = q
  /\ dlq = dead
  /\ dups = 0
  /\ inv = [s \in 1..MaxConcurrency |-> IdleInv]
  /\ call = IdleCall
  /\ resp = None
  /\ clock = 0
  /\ nextId = 3
  /\ errlog = {}
  /\ wait = IdleWait
  /\ list = IdleList

ProcessingRow2 == MarkProcessing(NewJobRow(2, PromptAB, "sdxl-lightning", 0), 0)
UrlOfJob2 == DownloadUrl(Filename(0, PromptAB))

\* Job 2 completed on its first delivery.
CompletedStore(q) ==
  StoreInit(q, MarkCompleted(ProcessingRow2, UrlOfJob2, 0),
            {GenerationRecord(1, 2, UrlOfJob2, PromptAB, "sdxl-lightning", 0)}, {})

\* Every delivery of job 2 failed in synthesis; its work unit is dead-lettered.
FailedStore(q) ==
  StoreInit(q, MarkFailed(ProcessingRow2, GenerationError, 0), {},
            {WorkUnit(2, PromptAB, "sdxl-lightning")})

DispatchedQueue == {QueueMessage(WorkUnit(1, PromptRed, DefaultModel), 1)}

ClientInit == CompletedStore(DispatchedQueue) \/ FailedStore(DispatchedQueue)

\* wait_for_completion calls while the consumer processes job 1.
WaitNext ==
  \/ \E args \in WaitArgs : WaitStart(args)
  \/ WaitQuery
  \/ WaitQueryThrows
  \/ WaitSleep
  \/ ConsumerNext

WaitSpec == ClientInit /\ [][WaitNext]_vars

\* wait_for_completion calls on a store nothing changes any more: the send of job 1
\* failed, so it stays pending.  Every SELECT settles and every timer fires.
OrphanInit == CompletedStore({}) \/ FailedStore({})

WaitStep == WaitQuery \/ WaitQueryThrows \/ WaitSleep

StuckWaitNext ==
  \/ \E args \in WaitArgs : WaitStart(args)
  \/ WaitQuery
  \/ WaitQueryThrows
  \/ WaitSleep

FairWaitSpec == OrphanInit /\ [][StuckWaitNext]_vars /\ WF_vars(WaitStep)

\* One wait_for_completion call while the consumer processes job 1.
PollNext ==
  \/ wait.pc = "idle" /\ \E args \in PollArgs : WaitStart(args)
  \/ WaitQuery
  \/ WaitQueryThrows
  \/ WaitSleep
  \/ ConsumerNext

PollSpec == ClientInit /\ [][PollNext]_vars

\* generate_image({prompt: "Red", count: 2}) has returned: both replicas are pending
\* with their work units queued, and the queue may run two invocations at a time.
ReplicaInit ==
  /\ jobs = (1 :> NewJobRow(1, PromptRed, DefaultModel, 0)) @@
            (2 :> NewJobRow(2, PromptRed, DefaultModel, 0))
  /\ generations = {}
  /\ queue = {QueueMessage(WorkUnit(1, PromptRed, DefaultModel), 1),
              QueueMessage(WorkUnit(2, PromptRed, DefaultModel), 1)}
  /\ dlq = {}
  /\ dups = 0
  /\ inv = [s \in 1..(MaxConcurrency + 1) |-> IdleInv]
  /\ call = IdleCall
  /\ resp = Some(MultiJobResponse(
                   [prompt |-> PromptRed, model |-> DefaultModel, count |-> 2], <<1, 2>>))
  /\ clock = 0
  /\ nextId = 3
  /\ errlog = {}
  /\ wait = IdleWait
  /\ list = IdleList

ReplicaSpec == ReplicaInit /\ [][ConsumerNext]_vars

\* The steps of an invocation in which synthesis or storage may fail and every
\* statement sent to D1 succeeds.
ConsumerOnSoundStore(s) ==
  \/ ConsumerMark(s)
  \/ ConsumerGen(s)
  \/ ConsumerGenThrows(s)
  \/ ConsumerUpload(s)
  \/ ConsumerUploadThrows(s)
  \/ ConsumerComplete(s)
  \/ ConsumerArchive(s)
  \/ ConsumerCatch(s)

\* One generate_image call on an empty store while the consumer runs.  The queue
\* delivers waiting messages and every awaited operation of a running invocation
\* settles; the call itself is owed nothing.
PartialNext ==
  \/ nextId = 1 /\ \E args \in PartialArgs : GenStart(args)
  \/ GenInsert
  \/ GenInsertThrows
  \/ GenSend
  \/ GenSendThrows
  \/ DeliverSome
  \/ \E s \in Slots : ConsumerOnSoundStore(s)

PartialSpec ==
  /\ Init
  /\ [][PartialNext]_vars
  /\ WF_vars(DeliverSome)
  /\ \A s \in 1..MaxConcurrency : WF_vars(ConsumerOnSoundStore(s))

\* list_jobs and list_generations calls while the consumer processes job 1.
ListNext ==
  \/ \E tool \in ListTools : \E args \in ListArgs : ListStart(tool, args)
  \/ ListCount
  \/ ListCountThrows
  \/ ListPage
  \/ ListPageThrows
  \/ ConsumerNext

ListSpec == ClientInit /\ [][ListNext]_vars

(* ------------------------------------------------------------ properties *)
\* Generation records that reference job j.
\* As the completed store, with job 2 created and processed one tick after job 1.
LaterUrlOfJob2 == DownloadUrl(Filename(MaxTime, PromptAB))

LaterRow2 ==
  MarkCompleted(MarkProcessing(NewJobRow(2, PromptAB, "sdxl-lightning", MaxTime), MaxTime),
                LaterUrlOfJob2, MaxTime)

LaterJobInit ==
  /\ jobs = (1 :> NewJobRow(1, PromptRed, DefaultModel, 0)) @@ (2 :> LaterRow2)
  /\ generations = {GenerationRecord(1, 2, LaterUrlOfJob2, PromptAB, "sdxl-lightning", MaxTime)}
  /\ queue = DispatchedQueue
  /\ dlq = {}
  /\ dups = 0
  /\ inv = [s \in 1..MaxConcurrency |-> IdleInv]
  /\ call = IdleCall
  /\ resp = None
  /\ clock = MaxTime
  /\ nextId = 3
  /\ errlog = {}
  /\ wait = IdleWait
  /\ list = IdleList

\* get_job_status, list_jobs and list_generations calls while the consumer processes
\* job 1.
QueryNext ==
  \/ \E tool \in ListTools : \E args \in ListArgs : ListStart(tool, args)
  \/ ListCount
  \/ ListCountThrows
  \/ ListPage
  \/ ListPageThrows
  \/ \E args \in GetArgs : GetJobStatus(args)
  \/ \E args \in GetArgs : GetJobStatusThrows(args)
  \/ ConsumerNext

QueryInit == ClientInit \/ LaterJobInit

QuerySpec == QueryInit /\ [][QueryNext]_vars

\* One generate_image_and_wait call on an empty store.  The consumer is modelled once
\* the generate step is over, in runs in which it created at most MaxServed jobs.
ComboNext ==
  \/ (wait.pc = "idle" /\ \E args \in ComboArgs : ComboStart(args))
  \/ ComboInsert
  \/ ComboInsertThrows
  \/ ComboSend
  \/ ComboSendThrows
  \/ WaitQuery
  \/ WaitQueryThrows
  \/ WaitSleep
  \/ (call.pc = "idle" /\ Cardinality(DOMAIN jobs) <= MaxServed /\ ConsumerNext)

ComboSpec == Init /\ [][ComboNext]_vars

\* No tool call is in progress and no wait has been made yet.
NoCallInProgress ==
  /\ call.pc = "idle"
  /\ wait.pc = "idle"
  /\ list.pc = "idle"

\* Calls of every tool, known or unknown, one after the other, on an empty store and on
\* a store whose jobs nothing processes any more; a call that waits is the last one.
ToolsNext ==
  \/ (NoCallInProgress /\ \E args \in TestArgs : GenStart(args))
  \/ GenInsert
  \/ GenInsertThrows
  \/ GenSend
  \/ GenSendThrows
  \/ (NoCallInProgress /\ \E args \in GetArgs : GetJobStatus(args))
  \/ (NoCallInProgress /\ \E args \in GetArgs : GetJobStatusThrows(args))
  \/ (NoCallInProgress /\ \E tool \in ListTools : \E args \in ListArgs : ListStart(tool, args))
  \/ ListCount
  \/ ListCountThrows
  \/ ListPage
  \/ ListPageThrows
  \/ (NoCallInProgress /\ \E args \in WaitArgs : WaitStart(args))
  \/ WaitQuery
  \/ WaitQueryThrows
  \/ WaitSleep
  \/ (NoCallInProgress /\ \E args \in ComboArgs : ComboStart(args))
  \/ ComboInsert
  \/ ComboInsertThrows
  \/ ComboSend
  \/ ComboSendThrows
  \/ (NoCallInProgress /\ \E name \in UnknownTools : UnknownTool(name))

ToolsInit == Init \/ OrphanInit

ToolsSpec == ToolsInit /\ [][ToolsNext]_vars

\* get_job_status calls on a job just created and dispatched, while the consumer
\* processes it under duplicate deliveries.
StatusNext ==
  \/ \E args \in GetArgs : GetJobStatus(args)
  \/ \E args \in GetArgs : GetJobStatusThrows(args)
  \/ DupNext

StatusSpec == DupInit /\ [][StatusNext]_vars

\* list_generations calls on a job just created and dispatched, while the consumer
\* processes it under duplicate deliveries.
ArchiveNext ==
  \/ \E args \in ArchiveArgs : ListStart("list_generations", args)
  \/ ListCount
  \/ ListCountThrows
  \/ ListPage
  \/ ListPageThrows
  \/ DupNext

ArchiveSpec == DupInit /\ [][ArchiveNext]_vars

\* The four tools called over SSE, one call at a time, on an empty store and on the
\* stores of the query specification; no consumer runs.
TransportNext ==
  \/ list.pc = "idle" /\ \E args \in TestArgs : SseGenStart(args)
  \/ SseGenInsert
  \/ SseGenInsertThrows
  \/ SseGenSend
  \/ SseGenSendThrows
  \/ call.pc = "idle" /\ list.pc = "idle" /\ \E args \in GetArgs : SseGetJobStatus(args)
  \/ call.pc = "idle" /\ list.pc = "idle" /\ \E args \in GetArgs : SseGetJobStatusThrows(args)
  \/ call.pc = "idle" /\ \E tool \in ListTools, args \in ListArgs : SseListStart(tool, args)
  \/ SseListCount
  \/ SseListCountThrows
  \/ SseListPage
  \/ SseListPageThrows
  \/ call.pc = "idle" /\ list.pc = "idle" /\ \E name \in UnknownTools : SseUnknownTool(name)

TransportInit == Init \/ QueryInit

TransportSpec == TransportInit /\ [][TransportNext]_vars

RecordsOf(j) == {g \in generations : g.job_id = j}

\* C1: once a job's status is completed, no later step changes that job's status.
C1_CompletedIsFinal ==
  [][\A j \in DOMAIN jobs :
       jobs[j].status = "completed" => jobs'[j].status = "completed"]_vars

\* C2: while a job is completed, processing a delivery of its work unit adds no
\* Generation record for it and leaves the row's status, image_url and error as
\* they were.
C2_RedeliveryIdempotent ==
  [][\A s \in DOMAIN inv :
       LET j == CurrentBody(inv[s]).jobId IN
         (/\ inv[s].pc # "idle"
          /\ inv'[s] # inv[s]
          /\ j \in DOMAIN jobs
          /\ jobs[j].status = "completed"
          /\ RecordsOf(j) # {})
         => /\ RecordsOf(j)' = RecordsOf(j)
            /\ jobs'[j].status = jobs[j].status
            /\ jobs'[j].image_url = jobs[j].image_url
            /\ jobs'[j].error = jobs[j].error]_vars

\* C3: at most one Generation record references a job, and a job that has a record
\* has been marked completed by some attempt (which is what sets its image_url).
C3_OneRecordPerJob ==
  \A j \in JobIds :
    /\ Cardinality(RecordsOf(j)) <= 1
    /\ RecordsOf(j) # {} => j \in DOMAIN jobs /\ jobs[j].image_url # None

\* C4: a job's image_url is non-null if and only if its status is completed.
C4_UrlIffCompleted ==
  \A j \in DOMAIN jobs : jobs[j].image_url # None <=> jobs[j].status = "completed"

\* C5: a job's error is non-null if and only if its status is failed.
C5_ErrorIffFailed ==
  \A j \in DOMAIN jobs : jobs[j].error # None <=> jobs[j].status = "failed"


\* Slot s takes a step from control point pc.
StepsFrom(s, pc) == inv[s].pc = pc /\ inv'[s] # inv[s]

\* The effect of message.retry() on m (and of not calling ack()): m is re-queued as one
\* more delivery, or dead-lettered when its retries are used up.
Retried(m) ==
  /\ m.attempts <= MaxRetries => QueueMessage(m.body, m.attempts + 1) \in queue'
  /\ m.attempts > MaxRetries => m.body \in dlq'

\* An awaited operation of step 2..5 throws: the catch block is entered on the same
\* message with an error message, and issues the 'failed' UPDATE with a fresh Date.now().
EntersCatch(s) ==
  (inv[s].pc \in {"gen", "upload", "complete", "archive"} /\ inv'[s].pc = "catch")
  => /\ inv'[s].err # None
     /\ inv'[s].t = clock'
     /\ inv'[s].batch = inv[s].batch /\ inv'[s].idx = inv[s].idx
     /\ jobs' = jobs /\ generations' = generations
     /\ queue' = queue /\ dlq' = dlq

\* The catch block of slot s is handling a failure of synthesis, of the upload, or of
\* the completion / archive write.
HandlesFailure(s) ==
  /\ inv[s].pc = "catch"
  /\ inv[s].err \in {Some(GenerationError), Some(UploadError),
                     Some(DbError("UPDATE completed")), Some(DbError("INSERT generations"))}
  /\ inv'[s] # inv[s]

\* The 'failed' UPDATE took effect on the message's job.
WroteFailed(s) ==
  LET j == CurrentBody(inv[s]).jobId IN
    /\ j \in DOMAIN jobs'
    /\ jobs'[j].status = "failed"
    /\ inv[s].err # None
    /\ jobs'[j].error = inv[s].err
    /\ jobs'[j].updated_at = inv[s].t

\* C6 as claimed: when synthesis, upload or the completion/archive write throws, the
\* consumer sets the job to failed with a non-null error and a new updated_at, and then
\* calls retry() on the message without acking it.
C6_FailureMarksFailed ==
  [][\A s \in DOMAIN inv :
       /\ EntersCatch(s)
       /\ HandlesFailure(s) => WroteFailed(s) /\ Retried(CurrentMessage(inv[s]))]_vars

\* C6 amended: as C6, unless the 'failed' UPDATE itself throws; then the error is logged
\* and swallowed, the job row is left as it was, and retry() is still called.
C6_FailureMarksFailedUnlessWriteThrows ==
  [][\A s \in DOMAIN inv :
       /\ EntersCatch(s)
       /\ HandlesFailure(s) =>
            /\ \/ WroteFailed(s) /\ errlog' = errlog
               \/ /\ jobs' = jobs
                  /\ errlog' = errlog \cup {CurrentBody(inv[s]).jobId}
            /\ Retried(CurrentMessage(inv[s]))]_vars

\* A job failed by a synthesis error, its message re-queued for a second delivery.
C6_Witness ==
  \E j \in DOMAIN jobs :
    /\ jobs[j].status = "failed"
    /\ jobs[j].error = Some(GenerationError)
    /\ j \notin errlog
    /\ \E m \in queue : m.body.jobId = j /\ m.attempts = 2

\* The 'completed' UPDATE took effect with the URL storage returned; the INSERT is
\* issued with the same URL and the same `now`.
WroteCompleted(s) ==
  LET j == CurrentBody(inv[s]).jobId IN
    /\ j \in DOMAIN jobs'
    /\ jobs'[j].status = "completed"
    /\ inv[s].url # None
    /\ jobs'[j].image_url = inv[s].url
    /\ jobs'[j].updated_at = inv[s].t
    /\ inv'[s].pc = "archive"
    /\ inv'[s].url = inv[s].url
    /\ inv'[s].t = inv[s].t
    /\ generations' = generations

\* Exactly one Generation record was appended, for the message's job, with the URL and
\* timestamp of the 'completed' UPDATE, and the message was acked (not re-queued).
Archived(s) ==
  LET b == CurrentBody(inv[s]) IN
    /\ \E g \in generations' :
         /\ g \notin generations
         /\ generations' = generations \cup {g}
         /\ g.job_id = b.jobId
         /\ g.image_url = inv[s].url[1]
         /\ g.created_at = inv[s].t
         /\ g.prompt = b.prompt /\ g.model = b.model
         /\ \A h \in generations : h.id # g.id
    /\ jobs' = jobs
    /\ queue' = queue /\ dlq' = dlq

FairSpec ==
  /\ DispatchedInit(MaxConcurrency)
  /\ [][ConsumerNext]_vars
  /\ WF_vars(DeliverSome)
  /\ \A s \in 1..MaxConcurrency : WF_vars(Consumer(s))

InQueue(j) == \E m \in queue : m.body.jobId = j
Processing(j) == j \in DOMAIN jobs /\ jobs[j].status = "processing"
Terminal(j) == j \in DOMAIN jobs /\ jobs[j].status \in {"completed", "failed"}

\* C8 as claimed: a job whose work unit is in the queue, or which is processing,
\* eventually is completed or failed.
C8_DispatchedReachesTerminal ==
  \A j \in JobIds : (InQueue(j) \/ Processing(j)) ~> Terminal(j)

\* C8 amended: as C8, unless a 'failed' UPDATE for the job threw and was swallowed.
C8_DispatchedReachesTerminalUnlessWriteThrows ==
  \A j \in JobIds : (InQueue(j) \/ Processing(j)) ~> (Terminal(j) \/ j \in errlog)

\* A dispatched job that went through processing to completed, nothing left to do.
C8_Witness ==
  /\ jobs[1].status = "completed"
  /\ errlog = {}
  /\ queue = {}
  /\ \A s \in DOMAIN inv : inv[s].pc = "idle"

(* -------------------------------------------------------- generate_image *)
\* The generate_image call takes a step.
CallSteps == call' # call

\* The call returns its success response in this step.
ReturnsSuccess == call.pc = "send" /\ resp' # None /\ resp'[1].success

\* The id the current loop iteration pushed on jobIds.
CurrentJobId == call.jobIds[Len(call.jobIds)]

\* The INSERT step adds exactly the pending row of the current id.
InsertedPendingRow ==
  LET j == CurrentJobId IN
    /\ j \notin DOMAIN jobs
    /\ DOMAIN jobs' = DOMAIN jobs \cup {j}
    /\ jobs'[j].id = j
    /\ jobs'[j].status = "pending"
    /\ jobs'[j].image_url = None /\ jobs'[j].error = None
    /\ jobs'[j].prompt = call.params.prompt /\ jobs'[j].model = call.params.model
    /\ jobs'[j].created_at = call.now /\ jobs'[j].updated_at = jobs'[j].created_at
    /\ queue' = queue

\* The send step adds exactly the work unit of the current id, as a first delivery.
SentWorkUnit ==
  LET j == CurrentJobId IN
    /\ \A m \in queue : m.body.jobId # j
    /\ \E m \in queue' :
         /\ queue' = queue \cup {m}
         /\ m.attempts = 1
         /\ m.body = [jobId |-> j, prompt |-> call.params.prompt, model |-> call.params.model]
    /\ DOMAIN jobs' = DOMAIN jobs

\* C9: a successful generate_image call with count = n makes n loop iterations; each
\* inserts one new pending row (null image_url and error, the request's prompt and
\* model, created_at = updated_at) and sends one work unit with that row's id, prompt
\* and model; no step of the call changes a row that exists.
C9_InsertsAndSendsPerReplica ==
  [][CallSteps =>
       /\ \A j \in DOMAIN jobs : jobs'[j] = jobs[j]
       /\ (call.pc = "insert" /\ call'.pc = "send") =>
            InsertedPendingRow /\ Len(call.jobIds) = call.i + 1
       /\ (call.pc = "send" /\ (call'.pc = "insert" \/ ReturnsSuccess)) =>
            SentWorkUnit /\ Len(call.jobIds) = call.i + 1
       /\ call.pc \notin {"insert", "send"} => jobs' = jobs /\ queue' = queue
       /\ ReturnsSuccess =>
            /\ call.params.count \in MinCount..MaxCount
            /\ Len(call.jobIds) = call.params.count
            /\ \A k \in 1..Len(call.jobIds) : call.jobIds[k] \in DOMAIN jobs']_vars

\* A call with count = 2 has returned: two pending rows, their two work units queued.
C9_Witness ==
  /\ resp # None /\ resp[1].success /\ resp[1].count = Some(2)
  /\ DOMAIN jobs = {1, 2}
  /\ \A j \in {1, 2} : jobs[j].status = "pending" /\ jobs[j].prompt = PromptAB
  /\ {m.body.jobId : m \in queue} = {1, 2}

\* C10: a successful generate_image call answers with job_id (and no list) when count
\* is 1 or omitted, and otherwise with job_ids: count pairwise-distinct ids, in the
\* order they were created, each the id of a row this call inserted.
C10_ResponseIds ==
  [][ReturnsSuccess =>
       LET r == resp'[1]
           ids == call.jobIds
       IN /\ call.params.count = 1 =>
               r.job_id = Some(ids[1]) /\ r.job_ids = None /\ Len(ids) = 1
          /\ call.params.count > 1 =>
               /\ r.job_id = None
               /\ r.job_ids = Some(ids)
               /\ Len(ids) = call.params.count
               /\ \A k \in 1..Len(ids) : \A l \in 1..Len(ids) : k < l => ids[k] < ids[l]
          /\ \A k \in 1..Len(ids) :
               /\ ids[k] \in DOMAIN jobs'
               /\ jobs'[ids[k]].created_at = call.now
               /\ jobs'[ids[k]].prompt = call.params.prompt
          /\ \A a \in TestArgs :
               (a.count = Omitted /\ ParseGenerateImage(a) # None)
                 => ParseGenerateImage(a)[1].count = 1]_vars

\* The answer to a call that omitted count: a single job_id.
C10_WitnessSingle ==
  /\ resp # None /\ resp[1].success
  /\ resp[1].job_id = Some(1) /\ resp[1].job_ids = None

\* The answer to a call with count = 2: the list of both ids, in creation order.
C10_Witness ==
  /\ resp # None /\ resp[1].success
  /\ resp[1].job_ids = Some(<<1, 2>>) /\ resp[1].job_id = None

(* ------------------------------------------- generate_image: failed calls *)
\* generate_image returns from its first step: zod rejected the arguments.
RejectsCall == call.pc = "idle" /\ resp' # None

\* generate_image accepts the arguments and starts its loop.
AcceptsCall == call.pc = "idle" /\ call'.pc = "insert"

\* C11: generate_image rejects exactly the arguments with a prompt shorter than 3 or
\* longer than 1000, a model outside the enum or a count outside 1..20; a rejected
\* call returns an error response, inserts no job row and sends no work unit.
C11_RejectedCallChangesNothing ==
  [][/\ RejectsCall =>
          /\ resp'[1].isError /\ ~resp'[1].success /\ resp'[1].error # None
          /\ jobs' = jobs /\ queue' = queue /\ generations' = generations
          /\ call' = call /\ nextId' = nextId
     /\ AcceptsCall =>
          /\ Len(call'.params.prompt) >= 3 /\ Len(call'.params.prompt) <= 1000
          /\ call'.params.model \in {"flux-schnell", "sdxl-lightning", "sdxl-base"}
          /\ call'.params.count \in 1..20
     /\ AcceptsCall =>
          \A a \in TestArgs :
            ParseGenerateImage(a) = None
              <=> \/ Len(a.prompt) < 3 \/ Len(a.prompt) > 1000
                  \/ (a.model # Omitted
                        /\ a.model[1] \notin {"flux-schnell", "sdxl-lightning", "sdxl-base"})
                  \/ (a.count # Omitted /\ a.count[1] \notin 1..20)]_vars

\* A call was rejected while job 1 exists with its work unit queued.
C11_Witness ==
  /\ resp # None /\ resp[1].error = Some("ZodError")
  /\ call = IdleCall
  /\ DOMAIN jobs = {1}
  /\ \E m \in queue : m.body.jobId = 1

\* Job j has a pending row and no work unit anywhere: none waits in the queue, none is
\* being processed, and no generate_image call is about to send one.
Orphaned(j) ==
  /\ j \in DOMAIN jobs
  /\ jobs[j].status = "pending"
  /\ \A m \in queue : m.body.jobId # j
  /\ \A s \in DOMAIN inv :
       inv[s].pc # "idle" =>
         \A i \in inv[s].idx..Len(inv[s].batch) : inv[s].batch[i].body.jobId # j
  /\ ~(call.pc = "send" /\ call.jobIds[Len(call.jobIds)] = j)

\* The send of the current job throws in this step.
SendFails == call.pc = "send" /\ resp' # None /\ ~resp'[1].success

\* C12: when IMAGE_QUEUE.send throws after the row was inserted, the job is left
\* pending with no work unit; from then on no step changes its row or gives it one.
C12_OrphanStaysPending ==
  [][\A j \in JobIds :
       /\ (SendFails /\ call.jobIds[Len(call.jobIds)] = j) => Orphaned(j)'
       /\ Orphaned(j) => Orphaned(j)' /\ jobs'[j] = jobs[j]]_vars

\* Job 1 is orphaned while job 2, created after it, has been completed.
C12_Witness ==
  /\ Orphaned(1)
  /\ dlq = {} /\ errlog = {}
  /\ 2 \in DOMAIN jobs /\ jobs[2].status = "completed"

(* ---------------------------------------------------- wait_for_completion *)
\* The wait_for_completion call takes a step from control point pc.
WaitStepsFrom(pc) == wait.pc = pc /\ wait' # wait

\* The call returns with `outcome` in this step.
WaitReturnsWith(outcome) ==
  wait' # wait /\ wait'.pc = "returned" /\ wait'.outcome = outcome

NamesMissingJob == \E i \in DOMAIN wait.jobIds : wait.jobIds[i] \notin DOMAIN jobs

\* The call returns the not-found error.
ReturnsNotFound ==
  /\ WaitReturnsWith("not_found")
  /\ resp' # None /\ resp'[1].isError /\ ~resp'[1].success
  /\ resp'[1].error = Some("One or more jobs not found")

\* The call returns what the catch block makes of a D1 error.
ReturnsQueryError ==
  /\ WaitReturnsWith("error")
  /\ resp' # None /\ resp'[1].isError /\ ~resp'[1].success
  /\ resp'[1].error = Some(DbError("SELECT generation_jobs"))

\* C14 as claimed: a call that names an id without a row returns the not-found error
\* at its first poll, before any sleep, whatever the other named jobs are.
C14_MissingJobFailsFast ==
  [][(WaitStepsFrom("query") /\ NamesMissingJob) =>
       /\ wait.polls = 1
       /\ ReturnsNotFound]_vars

\* C14 amended: as C14, unless the first SELECT throws; then the call returns that
\* error instead, also without sleeping.
C14_MissingJobFailsFastUnlessQueryThrows ==
  [][(WaitStepsFrom("query") /\ NamesMissingJob) =>
       /\ wait.polls = 1
       /\ wait'.elapsed <= MaxLatency
       /\ ReturnsNotFound \/ ReturnsQueryError]_vars

\* A wait on job 2, which is failed, and on an id without a row returned not-found at
\* its first poll.
C14_Witness ==
  /\ wait.pc = "returned" /\ wait.outcome = "not_found"
  /\ wait.jobIds = <<2, MissingId>>
  /\ wait.polls = 1
  /\ jobs[2].status = "failed"

\* The named jobs that have the given status now.
NamedWith(status) == {j \in Range(wait.jobIds) \cap DOMAIN jobs : jobs[j].status = status}

\* The call returns the failure error: in the job_id form the job's error message, in
\* the job_ids form the failed jobs with their errors and the completed jobs with
\* their image_urls.
ReturnsFailure ==
  /\ WaitReturnsWith("failed")
  /\ resp' # None /\ resp'[1].isError /\ ~resp'[1].success
  /\ IF wait.isSingle
       THEN /\ resp'[1].status = Some("failed")
            /\ resp'[1].error # None
            /\ resp'[1].error = jobs[wait.jobIds[1]].error
       ELSE /\ resp'[1].failed =
                 Some({[job_id |-> j, error |-> jobs[j].error] : j \in NamedWith("failed")})
            /\ resp'[1].completed =
                 Some({[job_id |-> j, image_url |-> jobs[j].image_url] :
                         j \in NamedWith("completed")})

C15_WitnessPending ==
  /\ wait.pc = "returned" /\ wait.outcome = "failed"
  /\ wait.jobIds = <<1, 2>>
  /\ jobs[1].status = "processing" /\ jobs[2].status = "failed"
  /\ resp # None /\ resp[1].completed = Some({})

\* One result per named job: its id, image_url, prompt and model.
ResultsOfNamed ==
  {[job_id |-> j, image_url |-> jobs[j].image_url, prompt |-> jobs[j].prompt,
    model |-> jobs[j].model] : j \in Range(wait.jobIds)}

\* Every named job has a row, is completed and has an image_url at this poll.
AllNamedCompleted ==
  /\ wait.pc = "query"
  /\ \A j \in Range(wait.jobIds) :
       j \in DOMAIN jobs /\ jobs[j].status = "completed" /\ jobs[j].image_url # None

\* C16 as claimed: the call returns success only at a poll where every named job is
\* completed, and the response then holds, in either form, one result per named job
\* with that job's id, image_url, prompt and model.
C16_SuccessOnlyWhenAllCompleted ==
  [][WaitReturnsWith("success") =>
       /\ AllNamedCompleted
       /\ resp' # None /\ resp'[1].success /\ ~resp'[1].isError
       /\ resp'[1].results = Some(ResultsOfNamed)]_vars

\* C16 amended: as C16 for the job_ids form, which also carries the count; in the
\* job_id form the response carries status 'completed' and the image_url, prompt and
\* model of the job, and no job id.
C16_SuccessOnlyWhenAllCompletedByForm ==
  [][WaitReturnsWith("success") =>
       /\ AllNamedCompleted
       /\ resp' # None /\ resp'[1].success /\ ~resp'[1].isError
       /\ IF wait.isSingle
            THEN LET j == wait.jobIds[1] IN
                   /\ resp'[1].status = Some("completed")
                   /\ resp'[1].image_url = jobs[j].image_url
                   /\ resp'[1].prompt = Some(jobs[j].prompt)
                   /\ resp'[1].model = Some(jobs[j].model)
                   /\ resp'[1].results = None
            ELSE /\ resp'[1].results = Some(ResultsOfNamed)
                 /\ Cardinality(ResultsOfNamed) = Len(wait.jobIds)
                 /\ resp'[1].count = Some(Len(wait.jobIds))]_vars

\* A wait on jobs 1 and 2 has just returned success with both results.
C16_Witness ==
  /\ wait.pc = "returned" /\ wait.outcome = "success"
  /\ wait.jobIds = <<1, 2>>
  /\ resp # None /\ resp[1].count = Some(2)
  /\ \A j \in {1, 2} : jobs[j].status = "completed"

\* A wait_for_completion call has started and has not returned.
WaitInFlight == wait.pc \in {"query", "sleep"}

\* Every named job has a row, none is failed and at least one is pending or processing.
NamedStuck ==
  /\ ~NamesMissingJob
  /\ NamedWith("failed") = {}
  /\ NamedWith("pending") \cup NamedWith("processing") # {}

\* The deadline of the call in progress, in ms after its start.
Deadline == MAX_WAIT(wait.jobIds)

\* The call returns the timeout error.
ReturnsTimeout ==
  /\ WaitReturnsWith("timeout")
  /\ resp' # None /\ resp'[1].isError /\ ~resp'[1].success
  /\ resp'[1].error # None

WaitCallStep == wait' # wait

\* C18: no step of a wait_for_completion call, whatever the call's outcome, changes a
\* job row, a Generation record or the content of the queue or of the dead-letter
\* queue; the consumer goes on processing a job whose waiter has timed out (the
\* witness: such a job completed).
C18_WaitChangesNothing ==
  [][WaitCallStep =>
       /\ jobs' = jobs
       /\ generations' = generations
       /\ queue' = queue
       /\ dlq' = dlq]_vars

\* The waiter of job 1 timed out and job 1 was completed afterwards.
C18_Witness ==
  /\ wait.pc = "returned" /\ wait.outcome = "timeout"
  /\ 1 \in Range(wait.jobIds)
  /\ jobs[1].status = "completed" /\ jobs[1].image_url # None
  /\ \E g \in generations : g.job_id = 1

\* C19: a call in the job_id form gives up once 60 seconds have passed since it
\* started (the guard then reads 60000 ms or more) and its error names 60 seconds; it
\* polls again 3 seconds after the preceding query settled.
C19_SingleJobGivesUpAfterSixtySeconds ==
  [][(wait.isSingle /\ WaitStepsFrom("sleep")) =>
       /\ wait'.elapsed = wait.elapsed + 3000
       /\ WaitReturnsWith("timeout") <=> wait'.elapsed >= 60000
       /\ WaitReturnsWith("timeout") =>
            /\ resp' # None /\ resp'[1].isError
            /\ resp'[1].error =
                 Some("Timeout: Image generation took longer than 60 seconds")]_vars

\* A list_jobs or list_generations call returns its page in this step.
ListReturnsPage ==
  /\ list.pc = "page" /\ list'.pc = "idle"
  /\ resp' # None /\ ~resp'[1].isError

\* C20: the page a list call returns satisfies
\* returned_count = min(limit, max(0, total_count - offset)) and
\* has_more = (offset + returned_count < total_count), also when a job completes
\* between the call's count query and its page query.
C20_PaginationConsistent ==
  [][ListReturnsPage =>
       LET r == resp'[1]
           rest == IF r.total_count - r.offset > 0 THEN r.total_count - r.offset ELSE 0
       IN /\ r.limit \in MinLimit..MaxLimit /\ r.offset >= MinOffset
          /\ r.returned_count = (IF r.limit < rest THEN r.limit ELSE rest)
          /\ r.has_more = (r.offset + r.returned_count < r.total_count)]_vars

\* The rows of the page returned in this step.
ReturnedRows ==
  IF list.tool = "list_jobs" THEN resp'[1].jobs[1] ELSE resp'[1].generations[1]

\* C21: the rows a list call returns are in non-increasing created_at order and are
\* the rows at positions offset .. offset + limit - 1 (counted from 0) of the filtered
\* table sorted by created_at descending; limit is 10 and offset 0 when omitted.
C21_PageOfSortedTable ==
  [][/\ ListReturnsPage =>
          LET rows == ReturnedRows
              table == ListedRows(list.tool, list.params.status)
              limit == list.params.limit
              offset == list.params.offset
          IN /\ \A i, j \in DOMAIN rows :
                  i < j => rows[i].created_at >= rows[j].created_at
             /\ \E sorted \in [1..Cardinality(table) -> table] :
                  /\ \A i, j \in DOMAIN sorted : i # j => sorted[i] # sorted[j]
                  /\ \A i, j \in DOMAIN sorted :
                       i < j => sorted[i].created_at >= sorted[j].created_at
                  /\ Len(rows) = Cardinality({k \in (offset + 1)..(offset + limit) :
                                                k <= Len(sorted)})
                  /\ \A i \in DOMAIN rows : rows[i] = sorted[offset + i]
             /\ resp'[1].limit = limit /\ resp'[1].offset = offset
     /\ \A tool \in ListTools : \A args \in ListArgs :
          (ListStart(tool, args) /\ list'.pc = "count") =>
             /\ list'.params.limit = (IF args.limit = Omitted THEN 10 ELSE args.limit[1])
             /\ list'.params.offset = (IF args.offset = Omitted THEN 0 ELSE args.offset[1])
             /\ list'.params.limit \in 1..50 /\ list'.params.offset >= 0]_vars

\* list_generations with limit 1 and offset 1 has just returned the older of two
\* records created at different times.
C21_Witness ==
  /\ list.pc = "idle" /\ resp # None /\ ~resp[1].isError
  /\ "generations" \in DOMAIN resp[1] /\ resp[1].generations # None
  /\ resp[1].limit = 1 /\ resp[1].offset = 1
  /\ Len(resp[1].generations[1]) = 1
  /\ \E g \in generations : g.created_at > resp[1].generations[1][1].created_at

\* list_jobs without arguments has just returned two jobs, the newer one first.
C21_WitnessJobs ==
  /\ list.pc = "idle" /\ resp # None /\ ~resp[1].isError
  /\ "jobs" \in DOMAIN resp[1] /\ resp[1].jobs # None
  /\ resp[1].limit = 10 /\ resp[1].offset = 0
  /\ Len(resp[1].jobs[1]) = 2
  /\ resp[1].jobs[1][1].created_at > resp[1].jobs[1][2].created_at

\* The jobs a list_jobs call with filter `status` is about.
JobsWithStatus(status) ==
  {jobs[j] : j \in {k \in DOMAIN jobs : status = "all" \/ jobs[k].status = status}}

\* C22: list_jobs with a status filter other than 'all' returns only jobs of that
\* status, and its total_count is the number of jobs of that status its count query
\* found; with 'all', which is the filter when none is given, every job is eligible
\* and total_count is the number of all jobs.
C22_StatusFilter ==
  [][/\ \A args \in ListArgs :
          (ListStart("list_jobs", args) /\ list'.pc = "count") =>
             list'.params.status = (IF args.status = Omitted THEN "all" ELSE args.status[1])
     /\ (list.tool = "list_jobs" /\ list.pc = "count" /\ list'.pc = "page") =>
          /\ list'.totalCount = Cardinality(JobsWithStatus(list.params.status))
          /\ list.params.status = "all" => list'.totalCount = Cardinality(DOMAIN jobs)
     /\ (list.tool = "list_jobs" /\ ListReturnsPage) =>
          /\ resp'[1].filter = Some(list.params.status)
          /\ resp'[1].total_count = list.totalCount
          /\ \A i \in DOMAIN ReturnedRows :
               /\ ReturnedRows[i] \in JobsWithStatus(list.params.status)
               /\ list.params.status # "all" =>
                    ReturnedRows[i].status = list.params.status
          /\ (list.params.status = "all" /\ list.params.offset = 0
                /\ list.params.limit >= Cardinality(DOMAIN jobs)) =>
               Range(ReturnedRows) = {jobs[j] : j \in DOMAIN jobs}]_vars

\* list_jobs({status: 'completed', limit: 1}) has just returned the one completed job
\* of two jobs, with total_count 1.
C22_Witness ==
  /\ list.pc = "idle" /\ resp # None /\ ~resp[1].isError
  /\ "filter" \in DOMAIN resp[1] /\ resp[1].filter = Some("completed")
  /\ resp[1].total_count = 1
  /\ Len(resp[1].jobs[1]) = 1 /\ resp[1].jobs[1][1].status = "completed"
  /\ \E j \in DOMAIN jobs : jobs[j].status # "completed"

\* A get_job_status(args) call is made and returns in this step.
GetCall(args) == GetJobStatus(args) \/ GetJobStatusThrows(args)

\* The response just returned reports job j as its row is.
ReportsRow(j) ==
  /\ resp' # None /\ resp'[1].success /\ ~resp'[1].isError
  /\ resp'[1].job_id = Some(j)
  /\ resp'[1].status = Some(jobs[j].status)
  /\ resp'[1].image_url = jobs[j].image_url
  /\ resp'[1].error = jobs[j].error
  /\ resp'[1].prompt = Some(jobs[j].prompt)
  /\ resp'[1].model = Some(jobs[j].model)
  /\ resp'[1].created_at = Some(jobs[j].created_at)
  /\ resp'[1].updated_at = Some(jobs[j].updated_at)

\* The response just returned is the not-found error.
ReportsNotFound ==
  /\ resp' # None /\ ~resp'[1].success /\ resp'[1].isError
  /\ resp'[1].error = Some("Job not found")

\* The response just returned is what the catch block makes of a D1 error.
ReportsQueryError ==
  /\ resp' # None /\ ~resp'[1].success /\ resp'[1].isError
  /\ resp'[1].error = Some(DbError("SELECT generation_jobs"))

StoreUnchanged ==
  /\ jobs' = jobs /\ generations' = generations /\ queue' = queue /\ dlq' = dlq

\* C23 as claimed: get_job_status returns the not-found error for an identifier
\* without a row and the row's current fields for an identifier with one, and changes
\* no stored state.
C23_StatusOrNotFound ==
  [][\A args \in GetArgs :
       (GetCall(args) /\ ParseGet(args) # None) =>
          LET j == args.job_id[1] IN
            /\ j \notin DOMAIN jobs => ReportsNotFound
            /\ j \in DOMAIN jobs => ReportsRow(j)
            /\ StoreUnchanged]_vars

\* C23 amended: as C23 when the SELECT returns; when the SELECT throws, the call
\* returns the error response the catch block builds from the thrown error.
C23_StatusOrNotFoundUnlessQueryThrows ==
  [][\A args \in GetArgs :
       (GetCall(args) /\ ParseGet(args) # None) =>
          LET j == args.job_id[1] IN
            /\ j \notin DOMAIN jobs => (ReportsNotFound \/ ReportsQueryError)
            /\ j \in DOMAIN jobs => (ReportsRow(j) \/ ReportsQueryError)
            /\ GetJobStatus(args) =>
                 (IF j \in DOMAIN jobs THEN ReportsRow(j) ELSE ReportsNotFound)
            /\ StoreUnchanged]_vars

\* get_job_status has just reported job 1 as completed with its image_url.
C23_Witness ==
  /\ resp # None /\ resp[1].success
  /\ "updated_at" \in DOMAIN resp[1]
  /\ resp[1].job_id = Some(1) /\ resp[1].status = Some("completed")
  /\ resp[1].image_url # None /\ resp[1].image_url = jobs[1].image_url

\* get_job_status has just reported that the job asked for does not exist.
C23_WitnessNotFound ==
  /\ resp # None /\ resp[1].isError
  /\ resp[1].error = Some("Job not found")
  /\ resp[1].job_id = Some(MissingId)

\* The generate step of a generate_image_and_wait call is in progress.
ComboGenerating == call.pc \in {"combo_insert", "combo_send"}

\* The generate step ends in this step without having created all its jobs.
ComboGenerateFails ==
  \/ \E args \in ComboArgs : ComboStart(args) /\ ParseGenerateImage(args) = None
  \/ ComboInsertThrows
  \/ ComboSendThrows

\* The generate step ends in this step with all its jobs created and dispatched.
ComboGenerateSucceeds ==
  /\ ComboSend
  /\ call.i + 1 = call.params.count

C25_WitnessMulti ==
  /\ wait.pc = "sleep" /\ ~wait.isSingle /\ wait.jobIds = <<1, 2>>
  /\ DOMAIN jobs = {1, 2}

\* The response is a JSON object with a success flag; it is marked isError exactly
\* when success is false, and then carries an error message.
WellFormed(r) ==
  /\ {"success", "isError", "error"} \subseteq DOMAIN r
  /\ r.success \in BOOLEAN /\ r.isError \in BOOLEAN
  /\ r.isError <=> ~r.success
  /\ r.isError => (r.error # None /\ r.error[1] # "")

\* A call fails in this step: its arguments are rejected, its tool is unknown, or a
\* store or queue operation throws.
CallFails ==
  \/ \E args \in TestArgs : GenStart(args) /\ ParseGenerateImage(args) = None
  \/ GenInsertThrows
  \/ GenSendThrows
  \/ \E args \in GetArgs : GetJobStatus(args) /\ ParseGet(args) = None
  \/ \E args \in GetArgs : GetJobStatusThrows(args)
  \/ \E tool \in ListTools : \E args \in ListArgs :
       ListStart(tool, args) /\ ParseList(tool, args) = None
  \/ ListCountThrows
  \/ ListPageThrows
  \/ \E args \in WaitArgs : WaitStart(args) /\ ParseWait(args) = None
  \/ WaitQueryThrows
  \/ ComboGenerateFails
  \/ \E name \in UnknownTools : UnknownTool(name)

\* A call ends in this step.
CallEnds ==
  \/ call.pc \in {"insert", "send"} /\ call'.pc = "idle"
  \/ list.pc # "idle" /\ list'.pc = "idle"
  \/ wait.pc \in {"query", "sleep"} /\ wait'.pc = "returned"
  \/ \E args \in GetArgs : GetCall(args)
  \/ CallFails

\* C24: every call of callImageTool, whatever the tool name and the arguments, ends
\* with a response that is a JSON object with a success flag; a call that fails (on
\* validation, on an unknown tool, on a throwing store or queue operation) ends with a
\* response marked isError that carries an error message; no call ends without a
\* response.
C24_AlwaysStructuredResponse ==
  [][/\ resp' # None => WellFormed(resp'[1])
     /\ resp' = None => ~CallEnds
     /\ (resp' = None \/ ~resp'[1].isError \/ resp'[1].success \/ resp'[1].error = None)
          => ~CallFails]_vars

\* A call of a tool that does not exist has just returned an error naming the tool.
C24_Witness ==
  /\ resp # None /\ resp[1].isError /\ ~resp[1].success
  /\ resp[1].error = Some("Unknown tool: delete_job")

\* Responses of every known tool, failures and successes, have been returned.
C24_WitnessSuccess ==
  /\ resp # None /\ resp[1].success /\ "results" \in DOMAIN resp[1]
  /\ resp[1].results # None

\* C26: the image_url of a job is null from its creation up to the first time its
\* status becomes completed: a job just created has none, and a null image_url
\* becomes non-null only in a step that makes the status completed.  A get_job_status
\* response for a job whose image_url is still null carries a null image_url, with
\* status pending, processing or failed.
C26_NoUrlBeforeCompletion ==
  /\ \A j \in DOMAIN jobs : jobs[j].status = "pending" /\ jobs[j].image_url = None
  /\ [][/\ \A j \in DOMAIN jobs' :
             /\ j \notin DOMAIN jobs => jobs'[j].image_url = None
             /\ (j \in DOMAIN jobs /\ jobs[j].image_url = None
                   /\ jobs'[j].image_url # None) =>
                  (jobs'[j].status = "completed" /\ jobs[j].status # "completed")
             /\ (j \in DOMAIN jobs /\ jobs[j].image_url = None) =>
                  jobs[j].status \in {"pending", "processing", "failed"}
        /\ \A args \in GetArgs :
             (/\ resp' # None
              /\ ParseGet(args) # None
              /\ args.job_id[1] \in DOMAIN jobs
              /\ GetJobStatus(args)) =>
               /\ resp'[1].image_url # None <=> jobs[args.job_id[1]].image_url # None
               /\ jobs[args.job_id[1]].image_url = None =>
                    resp'[1].status \in {Some("pending"), Some("processing"),
                                         Some("failed")}]_vars

\* get_job_status has just reported job 1, which failed once and was never completed,
\* as failed with a null image_url.
C26_Witness ==
  /\ resp # None /\ "updated_at" \in DOMAIN resp[1]
  /\ resp[1].job_id = Some(1) /\ resp[1].status = Some("failed")
  /\ resp[1].image_url = None
  /\ jobs[1].image_url = None /\ jobs[1].status = "failed"

\* C27: every record a list_generations call returns belongs to a job whose status is
\* completed and whose image_url is non-null when the page is read.
C27_ListedRecordsAreOfCompletedJobs ==
  [][(list.tool = "list_generations" /\ ListReturnsPage) =>
       \A i \in DOMAIN ReturnedRows :
          LET j == ReturnedRows[i].job_id IN
            /\ j \in DOMAIN jobs
            /\ jobs[j].status = "completed"
            /\ jobs[j].image_url # None]_vars

\* The changes of status the job lifecycle allows.
AllowedStatusChanges ==
  { <<"pending", "processing">>, <<"processing", "completed">>,
    <<"processing", "failed">>, <<"failed", "processing">> }

\* C28: every change of a job's status is pending -> processing, processing ->
\* completed, processing -> failed or failed -> processing (re-delivery); a new job is
\* pending and no job returns to pending.
C28_StatusChangesFollowLifecycle ==
  [][\A j \in DOMAIN jobs' :
       IF j \in DOMAIN jobs
         THEN \/ jobs'[j].status = jobs[j].status
              \/ <<jobs[j].status, jobs'[j].status>> \in AllowedStatusChanges
         ELSE jobs'[j].status = "pending"]_vars

\* C29: no step removes a job row, and no step changes or removes a Generation
\* record: the set of job ids and the set of Generation records only grow.
C29_RowsAndRecordsOnlyGrow ==
  [][/\ DOMAIN jobs \subseteq DOMAIN jobs'
     /\ generations \subseteq generations'
     /\ \A g \in generations' \ generations :
          \A h \in generations : h.id # g.id]_vars

\* Two jobs have been created one after the other and both have been archived.
C29_Witness ==
  /\ DOMAIN jobs = {1, 2}
  /\ Cardinality(generations) = 2
  /\ \A j \in {1, 2} : \E g \in generations : g.job_id = j
  /\ \E j \in {1, 2} : jobs[j].created_at # jobs[3 - j].created_at

\* No processing attempt is in flight and the queue holds no work unit of job j.
Quiescent(j) ==
  /\ \A s \in DOMAIN inv : inv[s].pc = "idle"
  /\ ~InQueue(j)

\* C30: under duplicate deliveries of a job's work unit, overlapping or not, once no
\* attempt is in flight and the queue holds no unit of the job, a job with a
\* Generation record (some attempt succeeded) is completed with a non-null image_url.
C30_DuplicatesTolerated ==
  \A j \in DOMAIN jobs :
    (Quiescent(j) /\ RecordsOf(j) # {}) =>
       (jobs[j].status = "completed" /\ jobs[j].image_url # None)

\* Two responses have the same format: the same fields, the same success and isError
\* flags, and an error message in both or in neither.
SameFormat(r, h) ==
  /\ DOMAIN r = DOMAIN h
  /\ r.success = h.success
  /\ r.isError = h.isError
  /\ (r.error = None) <=> (h.error = None)

\* generate_image over SSE does what callImageTool does with the same arguments: it
\* rejects the same arguments, creates the rows and sends the work units the wrapper's
\* loop creates and sends, and returns the wrapper's response.
SseGenerateAgrees ==
  /\ \A args \in TestArgs :
       (call.pc = "idle" /\ SseGenStart(args)) =>
          /\ (resp' # None) <=> (ParseGenerateImage(args) = None)
          /\ resp' # None => SameFormat(resp'[1], ErrorResponse("ZodError"))
  /\ (call.pc \in {"sse_insert", "sse_send"} /\ resp' # None) =>
       LET parsed == ParseGenerateImage(call.args) IN
         /\ parsed # None
         /\ IF resp'[1].success
              THEN /\ resp'[1] = GenerateResponse(parsed[1], call.jobIds)
                   /\ Len(call.jobIds) = parsed[1].count
                   /\ \A k \in DOMAIN call.jobIds :
                        /\ jobs'[call.jobIds[k]] =
                             NewJobRow(call.jobIds[k], parsed[1].prompt, parsed[1].model,
                                       call.now)
                        /\ QueueMessage(WorkUnit(call.jobIds[k], parsed[1].prompt,
                                                 parsed[1].model), 1) \in queue'
              ELSE SameFormat(resp'[1], ErrorResponse("Queue send failed"))

\* get_job_status over SSE takes the step callImageTool takes; rejected arguments give
\* an error response of the wrapper's format.
SseGetAgrees ==
  \A args \in GetArgs :
    /\ SseGetJobStatus(args) =>
         IF ParseGet(args) = None
           THEN SameFormat(resp'[1], ErrorResponse("ZodError")) /\ StoreUnchanged
           ELSE GetJobStatus(args)
    /\ SseGetJobStatusThrows(args) => GetJobStatusThrows(args)

\* list_jobs and list_generations over SSE accept the arguments callImageTool accepts,
\* with the same parameters, and return the wrapper's response for the tables.
SseListAgrees ==
  /\ \A tool \in ListTools, args \in ListArgs :
       (list.pc = "idle" /\ SseListStart(tool, args)) =>
          /\ (resp' # None) <=> (ParseList(tool, args) = None)
          /\ resp' # None => SameFormat(resp'[1], ErrorResponse("ZodError"))
          /\ resp' = None => list'.params = ParseList(tool, args)[1]
  /\ (list.pc \in {"sse_count", "sse_page"} /\ resp' # None) =>
       IF resp'[1].success
         THEN \E sq \in Ordered(ListedRows(list.tool, list.params.status)) :
                resp'[1] = ListResponse(list.tool, list.params,
                                        Cardinality(ListedRows(list.tool, list.params.status)),
                                        Page(sq, list.params.limit, list.params.offset))
         ELSE SameFormat(resp'[1], ErrorResponse(DbError("SELECT page")))

\* C31: for generate_image, get_job_status, list_generations and list_jobs, the SSE
\* handler of registerImageTools, given the arguments and the store state callImageTool
\* is given, returns the same response format and causes the same job-store and queue
\* effects.
C31_TransportsAgree ==
  [][SseGenerateAgrees /\ SseGetAgrees /\ SseListAgrees]_vars


\* Slot s ends the loop body of its current message: it goes to the next message of
\* the batch or queue() returns.
LeavesMessage(s) ==
  /\ inv[s].pc # "idle"
  /\ inv'[s].pc = "idle" \/ inv'[s].idx # inv[s].idx

\* ack() was called on m and retry() was not: m is neither re-queued nor dead-lettered.
AckedOnly(m) ==
  /\ queue' = queue /\ dlq' = dlq
  /\ QueueMessage(m.body, m.attempts + 1) \notin queue'
  /\ m.body \notin dlq'

\* retry() was called on m, once: one more delivery of m is queued, or m is
\* dead-lettered, and nothing else changes in the queues.
RetriedOnce(m) ==
  /\ queue' = RetryQueue(queue, m) /\ dlq' = RetryDlq(dlq, m)
  /\ queue' # queue \/ dlq' # dlq

\* C32: for every message of a delivered batch the consumer calls exactly one of ack()
\* and retry(), once: ack() only at the end of an attempt whose five steps succeeded,
\* retry() after any failure, also when the 'failed' UPDATE itself throws; and after
\* either the loop goes on with the next message of the batch.
C32_AckOrRetryOncePerMessage ==
  [][\A s \in DOMAIN inv :
       /\ LeavesMessage(s) =>
            LET m == CurrentMessage(inv[s]) IN
              /\ \/ /\ inv[s].pc = "archive"
                    /\ Archived(s)
                    /\ jobs[m.body.jobId].image_url = inv[s].url
                    /\ AckedOnly(m)
                 \/ /\ inv[s].pc = "catch"
                    /\ inv[s].err # None
                    /\ generations' = generations
                    /\ RetriedOnce(m)
              /\ IF inv[s].idx < Len(inv[s].batch)
                   THEN /\ inv'[s].pc = "mark"
                        /\ inv'[s].batch = inv[s].batch
                        /\ inv'[s].idx = inv[s].idx + 1
                   ELSE inv'[s] = IdleInv
       /\ (inv[s].pc # "idle" /\ inv'[s] # inv[s] /\ ~LeavesMessage(s)) =>
            /\ inv[s].pc # "catch"
            /\ inv[s].pc = "archive" => inv'[s].pc = "catch"
            /\ QueueMessage(CurrentBody(inv[s]), CurrentMessage(inv[s]).attempts + 1)
                 \notin queue'
            /\ CurrentBody(inv[s]) \notin dlq']_vars

\* The first message of a batch of two was retried although its 'failed' UPDATE threw,
\* and the second message of the batch has gone through its five steps up to ack().
C32_Witness ==
  \E s \in DOMAIN inv :
    /\ inv[s].pc = "archive"
    /\ inv[s].idx = 2
    /\ LET first == inv[s].batch[1] IN
         /\ first.body.jobId \in errlog
         /\ jobs[first.body.jobId].status = "processing"
         /\ QueueMessage(first.body, first.attempts + 1) \in queue

\* Slot s goes on with the attempt on its current message.
SameMessage(s) ==
  /\ inv'[s].batch = inv[s].batch
  /\ inv'[s].idx = inv[s].idx

\* C33: within one processing attempt the job is written processing before synthesis is
\* invoked, storage is invoked only after synthesis returned, completed is written only
\* after storage returned, the Generation record is appended only after the completed
\* write, and ack() is called only after the append.
C33_StepsInOrder ==
  [][/\ \A s \in DOMAIN inv :
          inv'[s] # inv[s] =>
            /\ inv'[s].pc = "mark" => inv[s].pc \in {"idle", "archive", "catch"}
            /\ inv'[s].pc = "gen" =>
                 /\ inv[s].pc = "mark" /\ SameMessage(s)
                 /\ jobs'[CurrentBody(inv[s]).jobId].status = "processing"
            /\ inv'[s].pc = "upload" => inv[s].pc = "gen" /\ SameMessage(s)
            /\ inv'[s].pc = "complete" =>
                 /\ inv[s].pc = "upload" /\ SameMessage(s)
                 /\ inv'[s].url # None
                 /\ jobs' = jobs
            /\ inv'[s].pc = "archive" =>
                 /\ inv[s].pc = "complete" /\ SameMessage(s)
                 /\ jobs'[CurrentBody(inv[s]).jobId].status = "completed"
                 /\ jobs'[CurrentBody(inv[s]).jobId].image_url = inv[s].url
                 /\ generations' = generations
            /\ (LeavesMessage(s) /\ inv[s].pc # "catch") =>
                 /\ inv[s].pc = "archive"
                 /\ \E g \in generations' \ generations :
                      g.job_id = CurrentBody(inv[s]).jobId /\ Some(g.image_url) = inv[s].url
     /\ \A k \in DOMAIN jobs :
          (jobs'[k].status = "completed" /\ jobs'[k] # jobs[k]) =>
             \E s \in DOMAIN inv :
               /\ inv[s].pc = "complete" /\ inv'[s].pc = "archive"
               /\ CurrentBody(inv[s]).jobId = k
     /\ generations' # generations =>
          \E s \in DOMAIN inv :
            /\ inv[s].pc = "archive" /\ LeavesMessage(s)
            /\ inv[s].url # None]_vars

\* An attempt has written completed with the URL storage returned and has not yet
\* appended its Generation record.
C33_Witness ==
  \E s \in DOMAIN inv :
    /\ inv[s].pc = "archive"
    /\ jobs[CurrentBody(inv[s]).jobId].status = "completed"
    /\ jobs[CurrentBody(inv[s]).jobId].image_url = inv[s].url
    /\ RecordsOf(CurrentBody(inv[s]).jobId) = {}

\* The SELECT of a poll settles in this step: the call decides on the rows.
PollDecides ==
  /\ wait.pc = "query"
  /\ wait' # wait
  /\ wait'.outcome # "error"

\* The named identifiers that have no row, and the named jobs of a given status.
NamedMissing == Range(wait.jobIds) \ DOMAIN jobs

\* C34: within a single poll wait_for_completion decides by strict precedence: a missing
\* row gives not-found even if another named job is failed; otherwise any failed job
\* gives the failure error even if others are pending or completed; otherwise no
\* pending/processing job gives success; otherwise it sleeps one poll interval.
C34_PollPrecedence ==
  [][PollDecides =>
       IF NamedMissing # {}
         THEN wait'.outcome = "not_found" /\ resp' = Some(NotFoundResponse)
       ELSE IF NamedWith("failed") # {}
         THEN wait'.outcome = "failed" /\ resp' # None /\ ~resp'[1].success
       ELSE IF NamedWith("pending") \cup NamedWith("processing") = {}
         THEN wait'.outcome = "success" /\ resp' # None /\ resp'[1].success
       ELSE wait'.pc = "sleep" /\ resp' = None]_vars

\* C35: wait_for_completion returns the not-found error only if at least one identifier
\* of the request has no row in the job store, for every job_ids list, also one in
\* which an identifier occurs more than once.
C35_NotFoundOnlyIfMissing ==
  [][(wait.pc = "query" /\ resp' = Some(NotFoundResponse)) => NamedMissing # {}]_vars

\* C36: whenever wait_for_completion returns the timeout error, at least one of the
\* named jobs is pending or processing in the job store at that moment.
C36_TimeoutMeansUnfinished ==
  [][(wait.pc = "sleep" /\ wait'.outcome = "timeout") =>
        NamedWith("pending") \cup NamedWith("processing") # {}]_vars

\* C37: two distinct jobs that both complete are never given the same storage object
\* name, hence never the same image_url, also when their prompts are equal and they
\* are the replicas of one generate_image call processed concurrently.
C37_DistinctJobsDistinctUrls ==
  \A j, k \in DOMAIN jobs :
    (j # k /\ jobs[j].image_url # None /\ jobs[k].image_url # None) =>
       jobs[j].image_url # jobs[k].image_url

\* The work unit of job j was sent: it waits in the queue, is with the consumer, was
\* dead-lettered, or an attempt on the job has left its mark.
WasSent(j) ==
  \/ InQueue(j)
  \/ \E s \in DOMAIN inv :
       inv[s].pc # "idle" /\ \E x \in DOMAIN inv[s].batch : inv[s].batch[x].body.jobId = j
  \/ \E b \in dlq : b.jobId = j
  \/ jobs[j].status # "pending"
  \/ j \in errlog

\* The first delivery of job j's work unit is still to come.
AwaitsFirstDelivery(j) ==
  \E m \in queue : m.body.jobId = j /\ m.attempts = 1

\* The send of replica i throws: the call stops with i rows, i - 1 work units sent and
\* an error response that names no job; `untouched` are the rows that must be pending.
StopsAtFailedSend(untouched) ==
  LET i == Len(call.jobIds) IN
    /\ call' = IdleCall
    /\ DOMAIN jobs' = Range(call.jobIds)
    /\ Cardinality(DOMAIN jobs') = i
    /\ i <= call.params.count
    /\ nextId' = nextId
    /\ \A k \in untouched : jobs'[call.jobIds[k]].status = "pending"
    /\ \A j \in Range(SubSeq(call.jobIds, 1, i - 1)) : WasSent(j)'
    /\ \A j \in {call.jobIds[i]} : ~WasSent(j)'
    /\ queue' = queue /\ inv' = inv /\ dlq' = dlq
    /\ resp'[1].isError
    /\ resp'[1].job_id = None /\ resp'[1].job_ids = None /\ resp'[1].count = None

\* The jobs dispatched before the failed send are still processed: their work units
\* are delivered to the consumer.
DispatchedStillProcessed ==
  \A j \in JobIds :
    (resp = Some(ErrorResponse("Queue send failed")) /\ AwaitsFirstDelivery(j))
      ~> ~AwaitsFirstDelivery(j)

\* A send that does not put its message in the queue ends the call.
FailedSendEndsCall ==
  (call.pc = "send" /\ call' # call /\ queue' = queue) => SendFails

\* C38 as claimed: if the send of the i-th replica of a generate_image call with
\* count = n throws, the call stops there: exactly i rows of the call exist, all
\* pending, exactly i - 1 work units were sent, replicas i+1..n are never created, the
\* error response carries none of the identifiers, and the i - 1 dispatched jobs are
\* still processed.
C38_FailedSendStopsCall ==
  /\ [][FailedSendEndsCall /\
        (SendFails => StopsAtFailedSend(1..Len(call.jobIds)))]_vars
  /\ DispatchedStillProcessed

\* C38 amended: as C38, but only the i-th row, whose send failed, is known to be
\* pending; the consumer may already have started on the i - 1 dispatched jobs.
C38_FailedSendStopsCallLastPending ==
  /\ [][FailedSendEndsCall /\
        (SendFails => StopsAtFailedSend({Len(call.jobIds)}))]_vars
  /\ DispatchedStillProcessed

\* The send of the second of two replicas failed: job 2 is pending with no work unit,
\* job 1 was dispatched and has been completed.
C38_Witness ==
  /\ call.pc = "idle"
  /\ DOMAIN jobs = {1, 2}
  /\ Orphaned(2)
  /\ jobs[1].status = "completed"
  /\ jobs[1].prompt = jobs[2].prompt

\* The send of the second of two replicas has just failed.
C38_WitnessReturn ==
  /\ resp = Some(ErrorResponse("Queue send failed"))
  /\ DOMAIN jobs = {1, 2}
  /\ AwaitsFirstDelivery(1)


(* ------------------------------------------------ work units and their rows *)
\* The work units the queue holds and those delivered to a running invocation.
QueuedOrInFlight ==
  {m.body : m \in queue} \cup
  UNION {{inv[s].batch[k].body : k \in DOMAIN inv[s].batch} : s \in DOMAIN inv}

RowMatches(body) ==
  /\ body.jobId \in DOMAIN jobs
  /\ jobs[body.jobId].id = body.jobId
  /\ jobs[body.jobId].prompt = body.prompt
  /\ jobs[body.jobId].model = body.model

\* C39: in every reachable state, every work unit in the dispatch queue or in flight
\* at the consumer names a job id whose row exists in the job store with the same
\* prompt and model.
C39_WorkUnitsHaveRows == \A body \in QueuedOrInFlight : RowMatches(body)

\* One work unit is being processed while another job's work unit waits in the queue
\* for its second delivery.
C39_Witness ==
  \E s \in DOMAIN inv :
    /\ inv[s].pc = "upload"
    /\ \E m \in queue : m.attempts = 2 /\ m.body.jobId # CurrentBody(inv[s]).jobId


(* ------------------------------------------------------ who writes job rows *)
\* Invocation s is at one of its three UPDATE statements and completes it.
ConsumerWrites(s) ==
  /\ inv[s].pc \in {"mark", "complete", "catch"}
  /\ inv'[s] # inv[s]

\* `new` differs from `old` in status, image_url, error and updated_at at most.
WritesOnlyOutcome(old, new) ==
  new = [old EXCEPT !.status = new.status, !.image_url = new.image_url,
                    !.error = new.error, !.updated_at = new.updated_at]

RowsWrittenByConsumerOnly ==
  /\ DOMAIN jobs \subseteq DOMAIN jobs'
  /\ \A j \in DOMAIN jobs :
       jobs'[j] # jobs[j] =>
         /\ WritesOnlyOutcome(jobs[j], jobs'[j])
         /\ \E s \in DOMAIN inv : ConsumerWrites(s) /\ CurrentBody(inv[s]).jobId = j

\* C40: a processing attempt writes only the status, image_url, error and updated_at
\* of the row whose id is the message's jobId; it never changes that job's id, prompt,
\* model or created_at, nor any field of another job's row; and an existing row is
\* changed by no step but a consumer's UPDATE.
C40_OnlyConsumerWritesOutcome == [][RowsWrittenByConsumerOnly]_vars

\* An invocation whose upload failed is about to write 'failed' to its job's row while
\* another job's row is completed.
C40_Witness ==
  \E s \in DOMAIN inv :
    /\ inv[s].pc = "catch"
    /\ inv[s].err = Some(UploadError)
    /\ \E j \in DOMAIN jobs :
         /\ j # CurrentBody(inv[s]).jobId
         /\ jobs[j].status = "completed"
         /\ jobs[j].image_url # None

====
